---- MODULE Spec2Model ----
(***************************************************************************)
(* Verification model of the DIY thermostat services.                      *)
(*                                                                         *)
(*   summary.py          parse_logs, calculate_runtime_for_period,         *)
(*                       format_seconds, get_summary                       *)
(*                       add_daily_summary, handle_client                  *)
(*   smart_thermostat.py read_arduino, heartbeat_monitor,                  *)
(*                       handle_command_connection                         *)
(*   telegram_controller.py  handle_notification_request, cmd_status       *)
(*                                                                         *)
(* Time is wall-clock time in whole seconds counted from a local midnight: *)
(* parse_logs keeps second resolution only (line[1:20]), every datetime    *)
(* carries the same ZoneInfo object, so comparison and subtraction are the *)
(* naive ones, and a midnight is a multiple of DaySeconds.                 *)
(*                                                                         *)
(* A log line is "[<asctime>] <level>: <message>".  Its message is kept as *)
(* a short sequence of chunks, and the substring tests of parse_logs are   *)
(* computed on the chunks:                                                 *)
(*   "STATUS:STARTED"  "STATUS:STOPPED"  "_MANUAL"  "MODE:"                *)
(*   "txt"   any other text, holding none of the tested substrings         *)
(* so that "STATUS:STARTED_MANUAL" is <<"STATUS:STARTED", "_MANUAL">>.     *)
(***************************************************************************)
EXTENDS Integers, Sequences, FiniteSets, TLC

VARIABLES
    pc,               \* position of the request being served
    clock,            \* time of the newest record in LOG_FILE
    nlines,           \* number of lines of LOG_FILE consumed by the loop
    line,             \* parse_logs: loop variable `line` (NoLine outside the loop body)
    branch,           \* parse_logs: what the last iteration of the loop did
    sessions,         \* parse_logs: local `sessions`
    current_session,  \* parse_logs: local `current_session` (<<>> is None)
    result,           \* value returned by parse_logs
    summary,          \* value returned by get_summary
    period,           \* calculate_runtime_for_period: (start_datetime, end_datetime)
    runtime,          \* value returned by calculate_runtime_for_period
    formatted,        \* format_seconds: its argument and the text it returns
    \* smart_thermostat.py: module globals and the two threads
    time_now,         \* time.time()
    last_heartbeat,   \* global last_heartbeat
    thermostat_status,\* global thermostat_status
    thermostat_mode,  \* global thermostat_mode
    alert_sent,       \* global alert_sent
    next_check,       \* heartbeat_monitor: the time its time.sleep(10) ends
    dev_line,         \* read_arduino: local `line`, as its ":"-separated fields
    alerts,           \* heartbeat_monitor: the alert records it has logged
    notif_outbox,     \* requests sent to the Notification service (port 5001)
    hb_since_check,   \* a line that sets last_heartbeat arrived since the last check
    \* one accepted connection of the Control, Notification or Query service
    svc,              \* the service that accepted the connection
    hpc,              \* position of its handler
    request,          \* the data received
    response,         \* the responses sent on the connection
    arduino_open,     \* arduino_serial is set and is_open
    serial_out,       \* the lines written to arduino_serial
    summary_file,     \* contents of SUMMARY_FILE
    telegram_sent,    \* send_telegram_message: the messages it was given
    \* summary.py: the handler threads of the Query service
    workers,          \* position and locals of each handle_client thread
    recorded,         \* dates whose add_daily_summary has returned True
    \* smart_thermostat.py: the connection loop of read_arduino
    reader,           \* position of read_arduino
    link_up,          \* the device answers on ARDUINO_PORT
    \* telegram_controller.py: the schedule
    current_schedule, \* global current_schedule
    schedule_file,    \* contents of SCHEDULE_FILE
    sched_sync,       \* send_schedule_to_arduino: the commands of the last sync
    \* smart_thermostat.py: a GET_STATUS served while read_arduino runs
    get_status        \* the globals the handler has read, and those held meanwhile

parseVars == <<pc, clock, nlines, line, branch, sessions, current_session, result,
               summary, period, runtime>>

fmtVars == <<formatted>>

monVars == <<time_now, last_heartbeat, thermostat_status, thermostat_mode, alert_sent,
             next_check, dev_line, alerts, notif_outbox, hb_since_check>>

svcVars == <<svc, hpc, request, response, arduino_open, serial_out, summary_file,
             telegram_sent>>

storeVars == <<workers, recorded>>

linkVars == <<reader, link_up>>

schedVars == <<current_schedule, schedule_file, sched_sync>>

ctlVars == <<get_status>>

vars == <<parseVars, fmtVars, monVars, svcVars, storeVars, linkVars, schedVars,
          ctlVars>>

----------------------------------------------------------------------------
(* Bounds of the model *)

MaxLines == 3
MaxChunks == 2
AggMaxT == 2
AggMaxSessions == 2
FmtMaxSeconds == 7500
MaxNow == 220
MaxSent == 1

(* Program constants *)

DaySeconds == 86400
HourSeconds == 3600
MinuteSeconds == 60
NoneTime == -1
HEARTBEAT_TIMEOUT == 90
MonitorSleep == 10

(* time that passes between two log records, and between the last record
   and the moment a summary is asked for *)
Deltas == {0, 1800, DaySeconds}

----------------------------------------------------------------------------
(* Log lines *)

Chunks == {"STATUS:STARTED", "STATUS:STOPPED", "_MANUAL", "MODE:", "txt"}

Texts == UNION {[1..n -> Chunks] : n \in 0..MaxChunks}

Heads == {"ts", "badts", "nobracket"}

Sources == {"Arduino", "other"}

NoLine == [head |-> "none", ts |-> 0, src |-> "none", text |-> <<>>]

(* the substrings parse_logs looks for, and the chunks each occurs in *)
ChunksWith(needle) ==
    CASE needle = "STATUS:"        -> {"STATUS:STARTED", "STATUS:STOPPED"}
      [] needle = "STATUS:STARTED" -> {"STATUS:STARTED"}
      [] needle = "STATUS:STOPPED" -> {"STATUS:STOPPED"}
      [] needle = "MODE:"          -> {"MODE:"}
      [] needle = "MANUAL"         -> {"_MANUAL"}

(* `needle in line` *)
InLine(needle, l) == \E k \in 1..Len(l.text) : l.text[k] \in ChunksWith(needle)

(* line.startswith('[') *)
StartsWithBracket(l) == l.head \in {"ts", "badts"}

(* datetime.strptime(line[1:20], ...) raises ValueError *)
TimestampParses(l) == l.head = "ts"

----------------------------------------------------------------------------
(* ThermostatSession *)

ThermostatSession(start_time, end_time, session_type) ==
    [start_time |-> start_time, end_time |-> end_time, session_type |-> session_type]

is_complete(s) == s.end_time # NoneTime

duration_seconds(s) == IF s.end_time = NoneTime THEN NoneTime ELSE s.end_time - s.start_time

(* `current_session and not current_session.is_complete()` *)
IsOpen(cur) == cur # <<>> /\ ~is_complete(cur[1])

----------------------------------------------------------------------------
(* parse_logs: one iteration of `for line in lines`, on the pair
   st = [sessions, current_session] *)

SessionType(l) == IF InLine("MANUAL", l) THEN "MANUAL" ELSE "AUTO"

(* variant: the open session is dropped, not closed, when a new one starts *)
OnStartedDiscardsOpen(st, l) ==
    [sessions |-> st.sessions,
     current_session |-> <<ThermostatSession(l.ts, NoneTime, SessionType(l))>>]

OnStarted(st, l) ==
    LET closed == IF IsOpen(st.current_session)
                  THEN Append(st.sessions,
                              [st.current_session[1] EXCEPT !.end_time = l.ts])
                  ELSE st.sessions
    IN [sessions |-> closed,
        current_session |-> <<ThermostatSession(l.ts, NoneTime, SessionType(l))>>]

(* variant: `current_session = None` and the is_complete() guard are missing,
   so the session just closed is closed again by the next STOPPED *)
OnStoppedReclose(st, l) ==
    IF st.current_session # <<>>
    THEN [sessions |-> Append(st.sessions,
                              [st.current_session[1] EXCEPT !.end_time = l.ts]),
          current_session |-> <<[st.current_session[1] EXCEPT !.end_time = l.ts]>>]
    ELSE st

(* variant: a STOPPED with no open session emits an empty session *)
OnStoppedEmitsEmpty(st, l) ==
    IF IsOpen(st.current_session)
    THEN [sessions |-> Append(st.sessions,
                              [st.current_session[1] EXCEPT !.end_time = l.ts]),
          current_session |-> <<>>]
    ELSE [sessions |-> Append(st.sessions, ThermostatSession(l.ts, l.ts, "AUTO")),
          current_session |-> <<>>]

(* variant: `current_session = None` and the assignment of end_time to the
   object are missing, so the session stays open after it was emitted *)
OnStoppedKeepsOpen(st, l) ==
    IF IsOpen(st.current_session)
    THEN [sessions |-> Append(st.sessions,
                              [st.current_session[1] EXCEPT !.end_time = l.ts]),
          current_session |-> st.current_session]
    ELSE st

OnStopped(st, l) ==
    IF IsOpen(st.current_session)
    THEN [sessions |-> Append(st.sessions,
                              [st.current_session[1] EXCEPT !.end_time = l.ts]),
          current_session |-> <<>>]
    ELSE st

(* variant: the `continue` after a failed strptime is missing *)
ProcessLineKeepsBadTimestamp(st, l) ==
    IF ~InLine("STATUS:", l) /\ ~InLine("MODE:", l) THEN st
    ELSE IF ~StartsWithBracket(l) THEN st
    ELSE IF InLine("STATUS:STARTED", l) THEN OnStarted(st, l)
    ELSE IF InLine("STATUS:STOPPED", l) THEN OnStopped(st, l)
    ELSE st

ProcessLine(st, l) ==
    IF ~InLine("STATUS:", l) /\ ~InLine("MODE:", l) THEN st
    ELSE IF ~StartsWithBracket(l) THEN st
    ELSE IF ~TimestampParses(l) THEN st
    ELSE IF InLine("STATUS:STARTED", l) THEN OnStarted(st, l)
    ELSE IF InLine("STATUS:STOPPED", l) THEN OnStopped(st, l)
    ELSE st

----------------------------------------------------------------------------
(* which branch of the loop body (lines 76-106) the line takes *)
Branch(st, l) ==
    IF ~InLine("STATUS:", l) /\ ~InLine("MODE:", l) THEN "skip_content"
    ELSE IF ~StartsWithBracket(l) THEN "skip_bracket"
    ELSE IF ~TimestampParses(l) THEN "skip_timestamp"
    ELSE IF InLine("STATUS:STARTED", l)
         THEN (IF IsOpen(st.current_session) THEN "close_open" ELSE "open")
    ELSE IF InLine("STATUS:STOPPED", l)
         THEN (IF IsOpen(st.current_session) THEN "close" ELSE "stop_ignored")
    ELSE "no_status"

----------------------------------------------------------------------------
(* calculate_runtime_for_period *)

Max2(a, b) == IF a >= b THEN a ELSE b
Min2(a, b) == IF a <= b THEN a ELSE b

(* line 149: the session is skipped without looking at its overlap *)
SkipSession(session, start_datetime, end_datetime) ==
    session.end_time < start_datetime \/ session.start_time > end_datetime

(* variant: the whole duration of an overlapping session is counted *)
OverlapDurationUnclamped(session, start_datetime, end_datetime) ==
    session.end_time - session.start_time

(* lines 153-156; the times are whole seconds, so int() changes nothing *)
OverlapDuration(session, start_datetime, end_datetime) ==
    Min2(session.end_time, end_datetime) - Max2(session.start_time, start_datetime)

(* lines 161-166; isoformat() renders the time it is given, kept as the time *)
PeriodSession(session, start_datetime, end_datetime) ==
    [start    |-> Max2(session.start_time, start_datetime),
     end      |-> Min2(session.end_time, end_datetime),
     duration |-> OverlapDuration(session, start_datetime, end_datetime),
     type     |-> session.session_type]

RECURSIVE RuntimeLoop(_, _, _, _)
RuntimeLoop(ss, start_datetime, end_datetime, acc) ==
    IF ss = <<>> THEN acc
    ELSE LET session == Head(ss)
             rest == Tail(ss)
         IN IF SkipSession(session, start_datetime, end_datetime)
            THEN RuntimeLoop(rest, start_datetime, end_datetime, acc)
            ELSE IF OverlapDuration(session, start_datetime, end_datetime) > 0
            THEN RuntimeLoop(rest, start_datetime, end_datetime,
                   [total_seconds   |-> acc.total_seconds
                                        + OverlapDuration(session, start_datetime, end_datetime),
                    session_count   |-> acc.session_count + 1,
                    period_sessions |-> Append(acc.period_sessions,
                                          PeriodSession(session, start_datetime, end_datetime))])
            ELSE RuntimeLoop(rest, start_datetime, end_datetime, acc)

calculate_runtime_for_period(ss, start_datetime, end_datetime) ==
    RuntimeLoop(ss, start_datetime, end_datetime,
                [total_seconds |-> 0, session_count |-> 0, period_sessions |-> <<>>])

----------------------------------------------------------------------------
(* format_seconds: "<hours>h <minutes>m" when hours > 0, else "<minutes>m" *)

(* variant: the minutes are not reduced modulo the hour *)
format_seconds_total_minutes(seconds) ==
    LET hours == seconds \div HourSeconds
        minutes == seconds \div MinuteSeconds
    IN IF hours > 0
       THEN [form |-> "h m", hours |-> hours, minutes |-> minutes]
       ELSE [form |-> "m", hours |-> 0, minutes |-> minutes]

format_seconds(seconds) ==
    LET hours == seconds \div HourSeconds
        minutes == (seconds % HourSeconds) \div MinuteSeconds
    IN IF hours > 0
       THEN [form |-> "h m", hours |-> hours, minutes |-> minutes]
       ELSE [form |-> "m", hours |-> 0, minutes |-> minutes]

----------------------------------------------------------------------------
(* get_summary *)

days_with_data == 7

(* variant: the divisor is the 6 of `today_start - timedelta(days=6)` *)
average_seconds_over_six(seven_days_seconds) == seven_days_seconds \div (days_with_data - 1)

(* line 232 *)
average_seconds(seven_days_seconds) ==
    IF days_with_data > 0 THEN seven_days_seconds \div days_with_data ELSE 0

(* line 199: now.replace(hour=0, minute=0, second=0, microsecond=0) *)
TodayStart(now) == now - (now % DaySeconds)

(* strftime('%Y-%m-%d'): the calendar day, as the number of the day *)
DateOf(t) == t \div DaySeconds

DayEntry(ss, day_start, start_datetime, end_datetime) ==
    LET r == calculate_runtime_for_period(ss, start_datetime, end_datetime)
    IN [date              |-> DateOf(day_start),
        runtime_seconds   |-> r.total_seconds,
        runtime_formatted |-> format_seconds(r.total_seconds),
        sessions          |-> r.session_count]

get_summary(ss, now) ==
    IF ss = <<>>
    THEN [status |-> "error", message |-> "No sessions found in logs"]
    ELSE LET today_start      == TodayStart(now)
             yesterday_start  == today_start - DaySeconds
             yesterday_end    == today_start - 1
             day_before_start == today_start - 2 * DaySeconds
             day_before_end   == yesterday_start - 1
             seven_days_start == today_start - 6 * DaySeconds
             seven_days_end   == now
             today_end        == now
             seven == calculate_runtime_for_period(ss, seven_days_start, seven_days_end)
         IN [status      |-> "success",
             timestamp   |-> now,
             today       |-> DayEntry(ss, today_start, today_start, today_end),
             yesterday   |-> DayEntry(ss, yesterday_start, yesterday_start, yesterday_end),
             day_before  |-> DayEntry(ss, day_before_start, day_before_start, day_before_end),
             last_7_days |-> [runtime_seconds   |-> seven.total_seconds,
                              runtime_formatted |-> format_seconds(seven.total_seconds),
                              sessions          |-> seven.session_count,
                              average_per_day   |->
                                  format_seconds(average_seconds(seven.total_seconds))]]

----------------------------------------------------------------------------
(* the parts of the state a specification leaves alone *)
FmtIdle == formatted = [seconds |-> 0, text |-> [form |-> "m", hours |-> 0, minutes |-> 0]]

StoreIdle == workers = <<>> /\ recorded = {}

LinkIdle == reader = [pc |-> "idle", dead |-> FALSE, wait |-> 0] /\ link_up = FALSE

SchedIdle ==
    /\ current_schedule = <<>>
    /\ schedule_file = [state |-> "missing", data |-> <<>>, writable |-> "yes"]
    /\ sched_sync = <<>>

CtlIdle == get_status = [reply |-> <<>>, held |-> {}]

MonIdle ==
    /\ time_now = 0
    /\ last_heartbeat = 0
    /\ thermostat_status = "UNKNOWN"
    /\ thermostat_mode = "AUTO"
    /\ alert_sent = FALSE
    /\ next_check = 0
    /\ dev_line = <<>>
    /\ alerts = <<>>
    /\ notif_outbox = <<>>
    /\ hb_since_check = FALSE

SvcIdle ==
    /\ svc = "none"
    /\ hpc = "idle"
    /\ request = <<>>
    /\ response = <<>>
    /\ arduino_open = FALSE
    /\ serial_out = <<>>
    /\ summary_file = [state |-> "missing", data |-> {}]
    /\ telegram_sent = <<>>

ParseIdle ==
    /\ pc = "idle"
    /\ clock = 0
    /\ nlines = 0
    /\ line = NoLine
    /\ branch = "none"
    /\ sessions = <<>>
    /\ current_session = <<>>
    /\ result = <<>>
    /\ summary = [status |-> "none"]
    /\ period = <<0, 0>>
    /\ runtime = [total_seconds |-> 0, session_count |-> 0, period_sessions |-> <<>>]

Init ==
    /\ FmtIdle /\ MonIdle /\ SvcIdle /\ StoreIdle /\ LinkIdle /\ SchedIdle /\ CtlIdle
    /\ pc = "start"
    /\ clock = 0
    /\ nlines = 0
    /\ line = NoLine
    /\ branch = "none"
    /\ sessions = <<>>
    /\ current_session = <<>>
    /\ result = <<>>
    /\ summary = [status |-> "none"]
    /\ period = <<0, 0>>
    /\ runtime = [total_seconds |-> 0, session_count |-> 0, period_sessions |-> <<>>]

(* parse_logs, lines 67-72: the locals are set and the file is read *)
ParseLogsOpen ==
    /\ pc = "start"
    /\ pc' = "loop"
    /\ sessions' = <<>>
    /\ current_session' = <<>>
    /\ UNCHANGED <<clock, nlines, line, branch, result, summary, period, runtime>>
    /\ UNCHANGED <<fmtVars, monVars, svcVars>>
    /\ UNCHANGED <<storeVars, linkVars, schedVars, ctlVars>>

(* parse_logs, line 74: `for line in lines` binds the next line of the file.
   The records of the file carry non-decreasing times. *)
ParseLogsNextLine ==
    /\ pc = "loop"
    /\ nlines < MaxLines
    /\ \E h \in Heads, d \in Deltas, src \in Sources, t \in Texts :
          /\ h # "ts" => d = 0
          /\ line' = [head |-> h, ts |-> IF h = "ts" THEN clock + d ELSE 0,
                      src |-> src, text |-> t]
          /\ clock' = clock + d
    /\ nlines' = nlines + 1
    /\ pc' = "body"
    /\ UNCHANGED <<branch, sessions, current_session, result, summary, period, runtime>>
    /\ UNCHANGED <<fmtVars, monVars, svcVars>>
    /\ UNCHANGED <<storeVars, linkVars, schedVars, ctlVars>>

(* parse_logs, lines 75-110: the loop body *)
ParseLogsBody ==
    /\ pc = "body"
    /\ LET st == [sessions |-> sessions, current_session |-> current_session]
           st2 == ProcessLine(st, line)
       IN /\ sessions' = st2.sessions
          /\ current_session' = st2.current_session
          /\ branch' = Branch(st, line)
    /\ line' = NoLine
    /\ pc' = "loop"
    /\ UNCHANGED <<clock, nlines, result, summary, period, runtime>>
    /\ UNCHANGED <<fmtVars, monVars, svcVars>>
    /\ UNCHANGED <<storeVars, linkVars, schedVars, ctlVars>>

(* variant: the session still open at the end of the file is returned too *)
ParseLogsReturnAppendsOpen ==
    /\ pc = "loop"
    /\ pc' = "parsed"
    /\ result' = sessions \o current_session
    /\ UNCHANGED <<clock, nlines, line, branch, sessions, current_session, summary,
                   period, runtime>>
    /\ UNCHANGED <<fmtVars, monVars, svcVars>>
    /\ UNCHANGED <<storeVars, linkVars, schedVars, ctlVars>>

(* parse_logs, lines 112-118: end of file *)
ParseLogsReturn ==
    /\ pc = "loop"
    /\ pc' = "parsed"
    /\ result' = sessions
    /\ UNCHANGED <<clock, nlines, line, branch, sessions, current_session, summary,
                   period, runtime>>
    /\ UNCHANGED <<fmtVars, monVars, svcVars>>
    /\ UNCHANGED <<storeVars, linkVars, schedVars, ctlVars>>

(* get_summary, lines 191-264, on the sessions parse_logs returned; `now` is
   not earlier than the newest record of the log *)
GetSummary ==
    /\ pc = "parsed"
    /\ \E d \in Deltas : summary' = get_summary(result, clock + d)
    /\ pc' = "done"
    /\ UNCHANGED <<clock, nlines, line, branch, sessions, current_session, result,
                   period, runtime>>
    /\ UNCHANGED <<fmtVars, monVars, svcVars>>
    /\ UNCHANGED <<storeVars, linkVars, schedVars, ctlVars>>

Next ==
    \/ ParseLogsOpen
    \/ ParseLogsNextLine
    \/ ParseLogsBody
    \/ ParseLogsReturn
    \/ GetSummary

Spec == Init /\ [][Next]_vars

----------------------------------------------------------------------------
(* calculate_runtime_for_period as a function of its arguments: every list of
   up to AggMaxSessions closed sessions and every period over 0..AggMaxT *)

AggTimes == 0..AggMaxT

AggSessions ==
    {ThermostatSession(s, e, k) : s \in AggTimes, e \in AggTimes, k \in {"AUTO", "MANUAL"}}

AggLists == UNION {[1..n -> {x \in AggSessions : x.start_time <= x.end_time}] :
                   n \in 0..AggMaxSessions}

InitAgg ==
    /\ FmtIdle /\ MonIdle /\ SvcIdle /\ StoreIdle /\ LinkIdle /\ SchedIdle /\ CtlIdle
    /\ pc = "agg"
    /\ clock = 0
    /\ nlines = 0
    /\ line = NoLine
    /\ branch = "none"
    /\ sessions = <<>>
    /\ current_session = <<>>
    /\ result \in AggLists
    /\ summary = [status |-> "none"]
    /\ period = <<0, 0>>
    /\ runtime = [total_seconds |-> 0, session_count |-> 0, period_sessions |-> <<>>]

CalculateRuntime ==
    /\ pc = "agg"
    /\ \E s \in AggTimes, e \in AggTimes :
          /\ period' = <<s, e>>
          /\ runtime' = calculate_runtime_for_period(result, s, e)
    /\ pc' = "agg_done"
    /\ UNCHANGED <<clock, nlines, line, branch, sessions, current_session, result, summary>>
    /\ UNCHANGED <<fmtVars, monVars, svcVars>>
    /\ UNCHANGED <<storeVars, linkVars, schedVars, ctlVars>>

NextAgg == CalculateRuntime

SpecAgg == InitAgg /\ [][NextAgg]_vars

----------------------------------------------------------------------------
(* The end-to-end scenario: a log of four status records of one day, parsed by
   parse_logs and summarised by get_summary; and format_seconds on every
   number of seconds up to FmtMaxSeconds *)

ScenarioLog ==
    << [head |-> "ts", ts |-> 6 * HourSeconds, src |-> "Arduino",
        text |-> <<"STATUS:STARTED">>],
       [head |-> "ts", ts |-> 6 * HourSeconds + 30 * MinuteSeconds, src |-> "Arduino",
        text |-> <<"STATUS:STOPPED">>],
       [head |-> "ts", ts |-> 17 * HourSeconds + 5 * MinuteSeconds, src |-> "Arduino",
        text |-> <<"STATUS:STARTED", "_MANUAL">>],
       [head |-> "ts", ts |-> 17 * HourSeconds + 45 * MinuteSeconds, src |-> "Arduino",
        text |-> <<"STATUS:STOPPED", "_MANUAL">>] >>

InitE2E ==
    /\ FmtIdle /\ MonIdle /\ SvcIdle /\ StoreIdle /\ LinkIdle /\ SchedIdle /\ CtlIdle
    /\ pc = "start"
    /\ clock = 0
    /\ nlines = 0
    /\ line = NoLine
    /\ branch = "none"
    /\ sessions = <<>>
    /\ current_session = <<>>
    /\ result = <<>>
    /\ summary = [status |-> "none"]
    /\ period = <<0, 0>>
    /\ runtime = [total_seconds |-> 0, session_count |-> 0, period_sessions |-> <<>>]

(* parse_logs, line 74, on the scenario's file *)
ReadScenarioLine ==
    /\ pc = "loop"
    /\ nlines < Len(ScenarioLog)
    /\ line' = ScenarioLog[nlines + 1]
    /\ clock' = ScenarioLog[nlines + 1].ts
    /\ nlines' = nlines + 1
    /\ pc' = "body"
    /\ UNCHANGED <<branch, sessions, current_session, result, summary, period, runtime>>
    /\ UNCHANGED <<fmtVars, monVars, svcVars>>
    /\ UNCHANGED <<storeVars, linkVars, schedVars, ctlVars>>

(* format_seconds, lines 170-181 *)
FormatSeconds ==
    /\ pc = "start"
    /\ \E n \in 0..FmtMaxSeconds :
          formatted' = [seconds |-> n, text |-> format_seconds(n)]
    /\ pc' = "formatted"
    /\ UNCHANGED <<clock, nlines, line, branch, sessions, current_session, result,
                   summary, period, runtime>>
    /\ UNCHANGED <<monVars, svcVars>>
    /\ UNCHANGED <<storeVars, linkVars, schedVars, ctlVars>>

NextE2E ==
    \/ ParseLogsOpen
    \/ ReadScenarioLine
    \/ ParseLogsBody
    \/ ParseLogsReturn
    \/ GetSummary
    \/ FormatSeconds

SpecE2E == InitE2E /\ [][NextE2E]_vars

----------------------------------------------------------------------------
(* smart_thermostat.py: read_arduino and heartbeat_monitor.

   time_now is time.time() in whole seconds since the process started.  A line
   of the device is kept as line.split(":"), so that `line == "STATUS:STARTED"`
   is parts = <<"STATUS", "STARTED">> and line.startswith("HEARTBEAT:") is
   parts[1] = "HEARTBEAT" with at least two parts.  alerts is what
   heartbeat_monitor logs (lines 180 and 184); notif_outbox is what the process
   sends to the notification port of telegram_controller.py. *)

TimeSteps == {5, 10}

DeviceLines ==
    { <<"HEARTBEAT", "12", "30", "ON", "MANUAL_ON">>,
      <<"HEARTBEAT", "12", "30", "OFF", "AUTO">>,
      <<"HEARTBEAT", "12", "30", "ON">>,
      <<"HEARTBEAT", "12">>,
      <<"STATUS", "STARTED">>,
      <<"STATUS", "STOPPED">>,
      <<"STATUS", "STARTED_MANUAL">>,
      <<"STATUS", "STOPPED_MANUAL">>,
      <<"MODE", "MANUAL_ON">>,
      <<"READY">> }

(* line.startswith(prefix + ":") *)
StartsWithField(parts, prefix) == Len(parts) >= 2 /\ parts[1] = prefix

(* the lines that carry a heartbeat: the four status messages and HEARTBEAT: *)
HeartbeatBearing(parts) ==
    \/ StartsWithField(parts, "HEARTBEAT")
    \/ parts \in {<<"STATUS", "STARTED">>, <<"STATUS", "STOPPED">>,
                  <<"STATUS", "STARTED_MANUAL">>, <<"STATUS", "STOPPED_MANUAL">>}

(* variant: a heartbeat is not taken while an alert is active *)
read_arduino_live_only(parts) ==
    [last_heartbeat |-> IF HeartbeatBearing(parts) /\ ~alert_sent
                        THEN time_now ELSE last_heartbeat,
     thermostat_status |-> thermostat_status,
     thermostat_mode |-> thermostat_mode]

(* read_arduino, lines 211-261: the globals after the line is handled *)
read_arduino(parts) ==
    LET st == [last_heartbeat |-> last_heartbeat,
               thermostat_status |-> thermostat_status,
               thermostat_mode |-> thermostat_mode]
    IN IF parts \in {<<"STATUS", "STARTED">>, <<"STATUS", "STARTED_MANUAL">>}
       THEN [st EXCEPT !.last_heartbeat = time_now, !.thermostat_status = "ON"]
       ELSE IF parts \in {<<"STATUS", "STOPPED">>, <<"STATUS", "STOPPED_MANUAL">>}
       THEN [st EXCEPT !.last_heartbeat = time_now, !.thermostat_status = "OFF"]
       ELSE IF StartsWithField(parts, "MODE")
       THEN [st EXCEPT !.thermostat_mode = parts[2]]
       ELSE IF StartsWithField(parts, "HEARTBEAT")
       THEN LET hb == [st EXCEPT !.last_heartbeat = time_now]
            IN IF Len(parts) >= 4
               THEN IF Len(parts) > 4
                    THEN [hb EXCEPT !.thermostat_status = parts[4],
                                    !.thermostat_mode = parts[5]]
                    ELSE [hb EXCEPT !.thermostat_status = parts[4]]
               ELSE hb
       ELSE st

(* cmd_status of telegram_controller.py, lines 263-271, on the log record of a
   heartbeat: hb_parts is what follows "HEARTBEAT:" *)
cmd_status_mode(parts) ==
    IF Len(parts) - 1 > 3 THEN parts[5] ELSE "UNKNOWN"

(* variant: the offline branch does not look at alert_sent *)
heartbeat_monitor_unlatched(time_since_heartbeat, alert) ==
    IF time_since_heartbeat > HEARTBEAT_TIMEOUT
    THEN [alert_sent |-> TRUE, log |-> <<"offline">>]
    ELSE IF time_since_heartbeat < HEARTBEAT_TIMEOUT /\ alert
    THEN [alert_sent |-> FALSE, log |-> <<"recovered">>]
    ELSE [alert_sent |-> alert, log |-> <<>>]

(* variant: the reconnected branch does not look at alert_sent *)
heartbeat_monitor_always_recovers(time_since_heartbeat, alert) ==
    IF time_since_heartbeat > HEARTBEAT_TIMEOUT /\ ~alert
    THEN [alert_sent |-> TRUE, log |-> <<"offline">>]
    ELSE IF time_since_heartbeat < HEARTBEAT_TIMEOUT
    THEN [alert_sent |-> FALSE, log |-> <<"recovered">>]
    ELSE [alert_sent |-> alert, log |-> <<>>]

(* variant: the monitor waits for a first heartbeat before it can alert *)
heartbeat_monitor_after_first_heartbeat(time_since_heartbeat, alert) ==
    IF time_since_heartbeat > HEARTBEAT_TIMEOUT /\ ~alert /\ last_heartbeat > 0
    THEN [alert_sent |-> TRUE, log |-> <<"offline">>]
    ELSE IF time_since_heartbeat < HEARTBEAT_TIMEOUT /\ alert
    THEN [alert_sent |-> FALSE, log |-> <<"recovered">>]
    ELSE [alert_sent |-> alert, log |-> <<>>]

(* heartbeat_monitor, lines 176-184: one check *)
heartbeat_monitor(time_since_heartbeat, alert) ==
    IF time_since_heartbeat > HEARTBEAT_TIMEOUT /\ ~alert
    THEN [alert_sent |-> TRUE, log |-> <<"offline">>]
    ELSE IF time_since_heartbeat < HEARTBEAT_TIMEOUT /\ alert
    THEN [alert_sent |-> FALSE, log |-> <<"recovered">>]
    ELSE [alert_sent |-> alert, log |-> <<>>]

(* lines 41-45 of smart_thermostat.py; heartbeat_monitor starts by sleeping *)
InitMon ==
    /\ ParseIdle /\ FmtIdle /\ SvcIdle /\ StoreIdle /\ LinkIdle /\ SchedIdle /\ CtlIdle
    /\ time_now = 0
    /\ last_heartbeat = 0
    /\ thermostat_status = "UNKNOWN"
    /\ thermostat_mode = "AUTO"
    /\ alert_sent = FALSE
    /\ next_check = MonitorSleep
    /\ dev_line = <<>>
    /\ alerts = <<>>
    /\ notif_outbox = <<>>
    /\ hb_since_check = FALSE

(* time passes, up to the time heartbeat_monitor wakes *)
Tick ==
    /\ \E d \in TimeSteps :
          /\ time_now + d <= next_check
          /\ time_now + d <= MaxNow
          /\ time_now' = time_now + d
    /\ UNCHANGED <<last_heartbeat, thermostat_status, thermostat_mode, alert_sent,
                   next_check, dev_line, alerts, notif_outbox, hb_since_check>>
    /\ UNCHANGED <<parseVars, fmtVars, svcVars>>
    /\ UNCHANGED <<storeVars, linkVars, schedVars, ctlVars>>

(* read_arduino, lines 202-261: one line of the device *)
ReadArduino(parts) ==
    /\ dev_line' = parts
    /\ last_heartbeat' = read_arduino(parts).last_heartbeat
    /\ thermostat_status' = read_arduino(parts).thermostat_status
    /\ thermostat_mode' = read_arduino(parts).thermostat_mode
    /\ hb_since_check' = (hb_since_check \/ HeartbeatBearing(parts))
    /\ UNCHANGED <<time_now, alert_sent, next_check, alerts, notif_outbox>>
    /\ UNCHANGED <<parseVars, fmtVars, svcVars>>
    /\ UNCHANGED <<storeVars, linkVars, schedVars, ctlVars>>

ReadArduinoLine == \E parts \in DeviceLines : ReadArduino(parts)

(* heartbeat_monitor, lines 174-184: the sleep ends, one check, the next sleep *)
HeartbeatMonitor ==
    /\ time_now = next_check
    /\ LET check == heartbeat_monitor(time_now - last_heartbeat, alert_sent)
       IN /\ alert_sent' = check.alert_sent
          /\ alerts' = alerts \o check.log
    /\ next_check' = time_now + MonitorSleep
    /\ hb_since_check' = FALSE
    /\ UNCHANGED <<time_now, last_heartbeat, thermostat_status, thermostat_mode,
                   dev_line, notif_outbox>>
    /\ UNCHANGED <<parseVars, fmtVars, svcVars>>
    /\ UNCHANGED <<storeVars, linkVars, schedVars, ctlVars>>

NextMon ==
    \/ Tick
    \/ ReadArduinoLine
    \/ HeartbeatMonitor

SpecMon == InitMon /\ [][NextMon]_vars

(* heartbeat_monitor is a thread of its own (lines 291-292): its sleep ends and
   its check runs; time passes *)
SpecMonFair == SpecMon /\ WF_vars(Tick) /\ WF_vars(HeartbeatMonitor)

(* time.sleep(10) suspends the thread for at least 10 seconds: the scheduling
   of other activity, a suspended host or a step of the wall clock that
   time.time() reads make the check measure a later time.  SpecMonLate is
   SpecMon with such late checks added and a device that sends heartbeats. *)
TickPast ==
    /\ \E d \in TimeSteps :
          /\ time_now + d > next_check
          /\ time_now + d <= MaxNow
          /\ time_now' = time_now + d
    /\ UNCHANGED <<last_heartbeat, thermostat_status, thermostat_mode, alert_sent,
                   next_check, dev_line, alerts, notif_outbox, hb_since_check>>
    /\ UNCHANGED <<parseVars, fmtVars, svcVars>>
    /\ UNCHANGED <<storeVars, linkVars, schedVars, ctlVars>>

(* heartbeat_monitor, lines 174-184: a check after a sleep that overran *)
HeartbeatMonitorLate ==
    /\ time_now > next_check
    /\ LET check == heartbeat_monitor(time_now - last_heartbeat, alert_sent)
       IN /\ alert_sent' = check.alert_sent
          /\ alerts' = alerts \o check.log
    /\ next_check' = time_now + MonitorSleep
    /\ hb_since_check' = FALSE
    /\ UNCHANGED <<time_now, last_heartbeat, thermostat_status, thermostat_mode,
                   dev_line, notif_outbox>>
    /\ UNCHANGED <<parseVars, fmtVars, svcVars>>
    /\ UNCHANGED <<storeVars, linkVars, schedVars, ctlVars>>

(* the device sends heartbeats only *)
ReadHeartbeatLine == ReadArduino(<<"HEARTBEAT", "12", "30", "ON", "MANUAL_ON">>)

NextMonLate ==
    \/ Tick
    \/ TickPast
    \/ ReadHeartbeatLine
    \/ HeartbeatMonitor
    \/ HeartbeatMonitorLate

SpecMonLate == InitMon /\ [][NextMonLate]_vars

----------------------------------------------------------------------------
(* The three socket services: handle_command_connection (smart_thermostat.py),
   handle_notification_request (telegram_controller.py) and handle_client
   (summary.py).  One accepted connection is followed from accept to close.

   What recv() returns, stripped, is kept as a short sequence of strings:
     control       <<head, tail>>, so that data.startswith("OVERRIDE:") is
                   head = "OVERRIDE:" and data == "GET_STATUS" is
                   <<"GET_STATUS", "">>
     notification  <<"json", type, message>> for a JSON object, <<"json_list">>
                   for JSON that is no object, <<"not_json">> for other text
     query         <<keyword>>
   and <<>> is the empty string.  A response is what json.dumps was given: a
   dict with its status, or a bare boolean. *)

ControlRequests ==
    { <<"OVERRIDE:", "ON">>, <<"OVERRIDE:", "OFF">>, <<"OVERRIDE:", "AUTO">>,
      <<"OVERRIDE:", "FOO">>,
      <<"CLEAR_SCHED", "">>, <<"CLEAR_SCHED", "xyz">>,
      <<"SCHED:", "0:6:0:8:0">>, <<"SCHED:", "garbage">>,
      <<"GET_STATUS", "">>, <<"GET_STATUS", "xyz">>,
      <<"txt", "">> }

NotificationRequests ==
    { <<"json", "notification", "m">>, <<"json", "other", "m">>,
      <<"json_list">>, <<"not_json">> }

QueryRequests == { <<"SUMMARY">>, <<"DAILY_SUMMARY">>, <<"HISTORICAL">>, <<"txt">> }

Services == {"control", "notification", "query"}

Requests(s) ==
    IF s = "control" THEN ControlRequests
    ELSE IF s = "notification" THEN NotificationRequests
    ELSE QueryRequests

(* the log the query service parses, as the sessions parse_logs returns, and
   the time of the request *)
SvcLogs == { <<>>, <<ThermostatSession(6 * HourSeconds, 6 * HourSeconds + 1800, "AUTO")>> }

SvcNows == { 12 * HourSeconds, DaySeconds + 12 * HourSeconds }

DictResponse(status, body) == [json |-> "object", status |-> status, body |-> body]

BoolResponse(value) == [json |-> "bool", status |-> "absent", body |-> value]

(* data.startswith(prefix) *)
StartsWith(data, prefix) == data # <<>> /\ data[1] = prefix

(* variant: True is returned whether or not the line was written *)
send_arduino_command_reports_success(command, write_ok) ==
    IF arduino_open /\ write_ok
    THEN [ok |-> TRUE, serial_out |-> Append(serial_out, command)]
    ELSE [ok |-> TRUE, serial_out |-> serial_out]

(* send_arduino_command, lines 64-77: write_ok is whether write() returns *)
send_arduino_command(command, write_ok) ==
    IF arduino_open /\ write_ok
    THEN [ok |-> TRUE, serial_out |-> Append(serial_out, command)]
    ELSE [ok |-> FALSE, serial_out |-> serial_out]

(* variant: GET_STATUS asks the device, like the other commands *)
handle_command_connection_status_from_device(data, write_ok) ==
    IF data = <<"GET_STATUS", "">>
    THEN LET w == send_arduino_command(data, write_ok)
         IN [response |-> IF w.ok
                          THEN DictResponse("success",
                                   <<thermostat_status, thermostat_mode, last_heartbeat>>)
                          ELSE DictResponse("error", "Failed to send to Arduino"),
             serial_out |-> w.serial_out]
    ELSE [response |-> DictResponse("error", "Unknown command"),
          serial_out |-> serial_out]

(* handle_command_connection, lines 90-122: the response and the device output *)
handle_command_connection(data, write_ok) ==
    IF StartsWith(data, "OVERRIDE:")
    THEN LET w == send_arduino_command(data, write_ok)
         IN [response |-> IF w.ok THEN DictResponse("success", "Command sent")
                          ELSE DictResponse("error", "Failed to send to Arduino"),
             serial_out |-> w.serial_out]
    ELSE IF StartsWith(data, "CLEAR_SCHED")
    THEN LET w == send_arduino_command(<<"CLEAR_SCHED", "">>, write_ok)
         IN [response |-> IF w.ok THEN DictResponse("success", "Schedules cleared")
                          ELSE DictResponse("error", "Failed to clear schedules"),
             serial_out |-> w.serial_out]
    ELSE IF StartsWith(data, "SCHED:")
    THEN LET w == send_arduino_command(data, write_ok)
         IN [response |-> IF w.ok THEN DictResponse("success", "Schedule sent")
                          ELSE DictResponse("error", "Failed to send schedule"),
             serial_out |-> w.serial_out]
    ELSE IF data = <<"GET_STATUS", "">>
    THEN [response |-> DictResponse("success",
                           <<thermostat_status, thermostat_mode, last_heartbeat>>),
          serial_out |-> serial_out]
    ELSE [response |-> DictResponse("error", "Unknown command"),
          serial_out |-> serial_out]

(* send_telegram_message, lines 85-106: one requests.post with the message;
   delivered is whether it returns True (status code 200) *)
send_telegram_message(message, delivered) ==
    Append(telegram_sent, [text |-> message, delivered |-> delivered])

(* variant: the acknowledgement does not depend on the delivery *)
handle_notification_request_always_acks(data, delivered) ==
    IF data[2] = "notification"
    THEN [response |-> DictResponse("success", "Notification sent"),
          telegram_sent |-> send_telegram_message(data[3], delivered)]
    ELSE [response |-> DictResponse("error", "Unknown request type"),
          telegram_sent |-> telegram_sent]

(* handle_notification_request, lines 117-127, for data json.loads turns into
   a dict *)
handle_notification_request(data, delivered) ==
    IF data[2] = "notification"
    THEN [response |-> IF delivered THEN DictResponse("success", "Notification sent")
                       ELSE DictResponse("error", "Failed to send notification"),
          telegram_sent |-> send_telegram_message(data[3], delivered)]
    ELSE [response |-> DictResponse("error", "Unknown request type"),
          telegram_sent |-> telegram_sent]

(* load_summary_file, lines 275-284 *)
load_summary_file == IF summary_file.state = "ok" THEN summary_file.data ELSE {}

(* add_daily_summary, lines 314-319: the entry built from get_summary()'s value *)
SnapshotEntry(day_summary) ==
    [date              |-> day_summary.today.date,
     runtime_seconds   |-> day_summary.today.runtime_seconds,
     runtime_formatted |-> day_summary.today.runtime_formatted,
     sessions          |-> day_summary.today.sessions,
     timestamp         |-> day_summary.timestamp]

(* variant: the runtime and the sessions of the earlier entry are added *)
SetEntryAccumulates(summaries, entry) ==
    {e \in summaries : e.date # entry.date}
    \cup { [entry EXCEPT !.runtime_seconds = @ + e.runtime_seconds,
                         !.sessions = @ + e.sessions] :
              e \in {x \in summaries : x.date = entry.date} }
    \cup (IF \E x \in summaries : x.date = entry.date THEN {} ELSE {entry})

(* variant: the mapping written holds the new entry only *)
SetEntryDropsOthers(summaries, entry) == {entry}

(* `summaries[today_date] = {...}`: the mapping is kept as the set of its
   entries, each carrying its key as date *)
SetEntry(summaries, entry) ==
    {e \in summaries : e.date # entry.date} \cup {entry}

(* add_daily_summary, lines 297-330: the boolean it returns and the file *)
add_daily_summary(ss, now, save_ok) ==
    LET day_summary == get_summary(ss, now)
    IN IF day_summary.status # "success"
       THEN [ok |-> FALSE, summary_file |-> summary_file]
       ELSE LET summaries == SetEntry(load_summary_file, SnapshotEntry(day_summary))
            IN IF save_ok
               THEN [ok |-> TRUE, summary_file |-> [state |-> "ok", data |-> summaries]]
               ELSE [ok |-> FALSE, summary_file |-> summary_file]

(* get_historical_summary, lines 332-345 *)
get_historical_summary == DictResponse("success", load_summary_file)

(* handle_client, lines 358-376: the response and the summary file *)
handle_client(data, ss, now, save_ok) ==
    IF data = <<"SUMMARY">>
    THEN LET r == get_summary(ss, now)
         IN [response |-> DictResponse(r.status, r), summary_file |-> summary_file]
    ELSE IF data = <<"DAILY_SUMMARY">>
    THEN LET a == add_daily_summary(ss, now, save_ok)
         IN [response |-> BoolResponse(a.ok), summary_file |-> a.summary_file]
    ELSE IF data = <<"HISTORICAL">>
    THEN [response |-> get_historical_summary, summary_file |-> summary_file]
    ELSE [response |-> DictResponse("error", "Unknown command"),
          summary_file |-> summary_file]

(* the globals read_arduino has set by the time a request arrives: as at the
   start of the process, or after HEARTBEAT:12:30:ON:MANUAL_ON at second 5 *)
SvcMemories ==
    { [time_now |-> 0, last_heartbeat |-> 0, thermostat_status |-> "UNKNOWN",
       thermostat_mode |-> "AUTO"],
      [time_now |-> 5, last_heartbeat |-> 5, thermostat_status |-> "ON",
       thermostat_mode |-> "MANUAL_ON"] }

(* nothing is connected; the summary file is absent or unreadable *)
InitSvc ==
    /\ ParseIdle /\ FmtIdle /\ StoreIdle /\ LinkIdle /\ SchedIdle /\ CtlIdle
    /\ \E m \in SvcMemories :
          /\ time_now = m.time_now
          /\ last_heartbeat = m.last_heartbeat
          /\ thermostat_status = m.thermostat_status
          /\ thermostat_mode = m.thermostat_mode
    /\ alert_sent = FALSE
    /\ next_check = MonitorSleep
    /\ dev_line = <<>>
    /\ alerts = <<>>
    /\ notif_outbox = <<>>
    /\ hb_since_check = FALSE
    /\ svc = "none"
    /\ hpc = "idle"
    /\ request = <<>>
    /\ response = <<>>
    /\ arduino_open = FALSE
    /\ serial_out = <<>>
    /\ summary_file \in {[state |-> "missing", data |-> {}],
                         [state |-> "corrupt", data |-> {}]}
    /\ telegram_sent = <<>>

(* read_arduino, lines 193 and 269-272: the serial link opens, or is lost *)
ArduinoLink ==
    /\ arduino_open' = ~arduino_open
    /\ UNCHANGED <<svc, hpc, request, response, serial_out, summary_file, telegram_sent>>
    /\ UNCHANGED <<parseVars, fmtVars, monVars>>
    /\ UNCHANGED <<storeVars, linkVars, schedVars, ctlVars>>

(* server_socket.accept() and the start of the handler's thread *)
Accept ==
    /\ hpc \in {"idle", "closed"}
    /\ Len(serial_out) < MaxSent
    /\ Len(telegram_sent) < MaxSent
    /\ \E s \in Services : svc' = s
    /\ hpc' = "recv"
    /\ request' = <<>>
    /\ response' = <<>>
    /\ UNCHANGED <<arduino_open, serial_out, summary_file, telegram_sent>>
    /\ UNCHANGED <<parseVars, fmtVars, monVars>>
    /\ UNCHANGED <<storeVars, linkVars, schedVars, ctlVars>>

(* recv() returns a request *)
RecvData ==
    /\ hpc = "recv"
    /\ \E data \in Requests(svc) : request' = data
    /\ hpc' = "process"
    /\ UNCHANGED <<svc, response, arduino_open, serial_out, summary_file, telegram_sent>>
    /\ UNCHANGED <<parseVars, fmtVars, monVars>>
    /\ UNCHANGED <<storeVars, linkVars, schedVars, ctlVars>>

(* recv() returns nothing but white space: `if not data: return` in the control
   and notification handlers, the else branch in handle_client *)
RecvEmpty ==
    /\ hpc = "recv"
    /\ request' = <<>>
    /\ hpc' = (IF svc = "query" THEN "process" ELSE "close")
    /\ UNCHANGED <<svc, response, arduino_open, serial_out, summary_file, telegram_sent>>
    /\ UNCHANGED <<parseVars, fmtVars, monVars>>
    /\ UNCHANGED <<storeVars, linkVars, schedVars, ctlVars>>

(* recv() raises socket.timeout: handle_command_connection only logs it *)
RecvTimeout ==
    /\ hpc = "recv"
    /\ hpc' = (IF svc = "control" THEN "close" ELSE "except")
    /\ UNCHANGED <<svc, request, response, arduino_open, serial_out, summary_file,
                   telegram_sent>>
    /\ UNCHANGED <<parseVars, fmtVars, monVars>>
    /\ UNCHANGED <<storeVars, linkVars, schedVars, ctlVars>>

(* handle_command_connection, lines 88-125; send_ok is whether sendall returns *)
ProcessControl ==
    /\ hpc = "process"
    /\ svc = "control"
    /\ \E write_ok, send_ok \in BOOLEAN :
          LET h == handle_command_connection(request, write_ok)
          IN /\ serial_out' = h.serial_out
             /\ response' = (IF send_ok THEN <<h.response>> ELSE response)
             /\ hpc' = (IF send_ok THEN "close" ELSE "except")
    /\ UNCHANGED <<svc, request, arduino_open, summary_file, telegram_sent>>
    /\ UNCHANGED <<parseVars, fmtVars, monVars>>
    /\ UNCHANGED <<storeVars, linkVars, schedVars, ctlVars>>

(* handle_notification_request, lines 117-130: json.loads raises on text that
   is no JSON, request.get raises on JSON that is no object *)
ProcessNotification ==
    /\ hpc = "process"
    /\ svc = "notification"
    /\ IF request[1] = "json"
       THEN \E delivered, send_ok \in BOOLEAN :
               LET h == handle_notification_request(request, delivered)
               IN /\ telegram_sent' = h.telegram_sent
                  /\ response' = (IF send_ok THEN <<h.response>> ELSE response)
                  /\ hpc' = (IF send_ok THEN "close" ELSE "except")
       ELSE /\ hpc' = "except"
            /\ UNCHANGED <<response, telegram_sent>>
    /\ UNCHANGED <<svc, request, arduino_open, serial_out, summary_file>>
    /\ UNCHANGED <<parseVars, fmtVars, monVars>>
    /\ UNCHANGED <<storeVars, linkVars, schedVars, ctlVars>>

(* handle_client, lines 356-380 *)
ProcessQuery ==
    /\ hpc = "process"
    /\ svc = "query"
    /\ \E ss \in SvcLogs, now \in SvcNows, save_ok, send_ok \in BOOLEAN :
          LET h == handle_client(request, ss, now, save_ok)
          IN /\ summary_file' = h.summary_file
             /\ response' = (IF send_ok THEN <<h.response>> ELSE response)
             /\ hpc' = (IF send_ok THEN "close" ELSE "except")
    /\ UNCHANGED <<svc, request, arduino_open, serial_out, telegram_sent>>
    /\ UNCHANGED <<parseVars, fmtVars, monVars>>
    /\ UNCHANGED <<storeVars, linkVars, schedVars, ctlVars>>

(* the except blocks: an error response is sent, if the socket still takes it *)
Except ==
    /\ hpc = "except"
    /\ \E send_ok \in BOOLEAN :
          response' = (IF send_ok
                       THEN Append(response, DictResponse("error", "exception"))
                       ELSE response)
    /\ hpc' = "close"
    /\ UNCHANGED <<svc, request, arduino_open, serial_out, summary_file, telegram_sent>>
    /\ UNCHANGED <<parseVars, fmtVars, monVars>>
    /\ UNCHANGED <<storeVars, linkVars, schedVars, ctlVars>>

(* variant: the socket is closed only after a response was sent *)
CloseAfterResponse ==
    /\ hpc = "close"
    /\ response # <<>>
    /\ hpc' = "closed"
    /\ UNCHANGED <<svc, request, response, arduino_open, serial_out, summary_file,
                   telegram_sent>>
    /\ UNCHANGED <<parseVars, fmtVars, monVars>>
    /\ UNCHANGED <<storeVars, linkVars, schedVars, ctlVars>>

(* finally: client_socket.close() *)
Close ==
    /\ hpc = "close"
    /\ hpc' = "closed"
    /\ UNCHANGED <<svc, request, response, arduino_open, serial_out, summary_file,
                   telegram_sent>>
    /\ UNCHANGED <<parseVars, fmtVars, monVars>>
    /\ UNCHANGED <<storeVars, linkVars, schedVars, ctlVars>>

(* the steps of the handler's thread *)
Handler ==
    \/ RecvData
    \/ RecvEmpty
    \/ RecvTimeout
    \/ ProcessControl
    \/ ProcessNotification
    \/ ProcessQuery
    \/ Except
    \/ Close

NextSvc ==
    \/ ArduinoLink
    \/ Accept
    \/ Handler

SpecSvc == InitSvc /\ [][NextSvc]_vars

(* the handler's thread keeps running: recv() is bounded by settimeout, and
   the handler has no loop *)
SpecSvcFair == SpecSvc /\ WF_vars(Handler)

----------------------------------------------------------------------------
(* summary.py: the snapshot store under the handler threads of start_server.
   Each worker is one handle_client thread serving DAILY_SUMMARY or HISTORICAL;
   add_daily_summary and save_summary_file are followed statement by statement:
   get_summary, load_summary_file and the assignment, open(SUMMARY_FILE, 'w'),
   which empties the file, and json.dump, which fills it.  result is what
   parse_logs returns on LOG_FILE, time_now is datetime.now(). *)

StoreWorkers == {1, 2}

StoreNows == { 6 * HourSeconds + 15 * MinuteSeconds, 12 * HourSeconds,
               DaySeconds + 12 * HourSeconds }

IdleWorker ==
    [pc |-> "idle", req |-> "none", entry |-> <<>>, loaded_state |-> "none",
     loaded |-> {}, summaries |-> {}, io_failed |-> FALSE, reply |-> <<>>, seen |-> {}]

InitStoreCommon ==
    /\ FmtIdle /\ LinkIdle /\ SchedIdle /\ SvcIdle /\ CtlIdle
    /\ pc = "idle"
    /\ clock = 0
    /\ nlines = 0
    /\ line = NoLine
    /\ branch = "none"
    /\ sessions = <<>>
    /\ current_session = <<>>
    /\ result \in SvcLogs
    /\ summary = [status |-> "none"]
    /\ period = <<0, 0>>
    /\ runtime = [total_seconds |-> 0, session_count |-> 0, period_sessions |-> <<>>]
    /\ time_now = 6 * HourSeconds + 15 * MinuteSeconds
    /\ last_heartbeat = 0
    /\ thermostat_status = "UNKNOWN"
    /\ thermostat_mode = "AUTO"
    /\ alert_sent = FALSE
    /\ next_check = 0
    /\ dev_line = <<>>
    /\ alerts = <<>>
    /\ notif_outbox = <<>>
    /\ hb_since_check = FALSE
    /\ recorded = {}

(* one handler thread at a time *)
InitStoreSeq ==
    /\ InitStoreCommon
    /\ workers = [w \in {1} |-> IdleWorker]

(* start_server, lines 410-418: a thread for each accepted connection *)
InitStore ==
    /\ InitStoreCommon
    /\ workers = [w \in StoreWorkers |-> IdleWorker]

StoreFrame ==
    /\ UNCHANGED <<parseVars, fmtVars, linkVars, schedVars, ctlVars>>
    /\ UNCHANGED <<last_heartbeat, thermostat_status, thermostat_mode, alert_sent,
                   next_check, dev_line, alerts, notif_outbox, hb_since_check>>
    /\ UNCHANGED <<svc, hpc, request, response, arduino_open, serial_out, telegram_sent>>

(* the wall clock moves on *)
StoreTick ==
    /\ \E t \in StoreNows : t > time_now /\ time_now' = t
    /\ UNCHANGED <<workers, recorded, summary_file>>
    /\ StoreFrame

(* handle_client, lines 354-370: the request is read *)
StoreAccept(w) ==
    /\ workers[w].pc \in {"idle", "done"}
    /\ \E req \in {"DAILY_SUMMARY", "HISTORICAL"} :
          workers' = [workers EXCEPT ![w] =
                         [IdleWorker EXCEPT !.pc = "start", !.req = req,
                                            !.seen = IF req = "HISTORICAL"
                                                     THEN recorded ELSE {}]]
    /\ UNCHANGED <<time_now, recorded, summary_file>>
    /\ StoreFrame

(* add_daily_summary, lines 302-308 *)
StoreGetSummary(w) ==
    /\ workers[w].pc = "start"
    /\ workers[w].req = "DAILY_SUMMARY"
    /\ LET day_summary == get_summary(result, time_now)
       IN workers' = [workers EXCEPT ![w] =
             IF day_summary.status # "success"
             THEN [@ EXCEPT !.pc = "done", !.reply = <<FALSE>>]
             ELSE [@ EXCEPT !.pc = "load", !.entry = <<SnapshotEntry(day_summary)>>]]
    /\ UNCHANGED <<time_now, recorded, summary_file>>
    /\ StoreFrame

(* variant: an absent or unreadable file fails add_daily_summary *)
StoreLoadFailsOnBadFile(w) ==
    /\ workers[w].pc = "load"
    /\ workers' = [workers EXCEPT ![w] =
          IF summary_file.state = "ok"
          THEN [@ EXCEPT !.pc = "save",
                         !.loaded_state = summary_file.state,
                         !.loaded = load_summary_file,
                         !.summaries = SetEntry(load_summary_file, workers[w].entry[1])]
          ELSE [@ EXCEPT !.pc = "done", !.loaded_state = summary_file.state,
                         !.reply = <<FALSE>>]]
    /\ UNCHANGED <<time_now, recorded, summary_file>>
    /\ StoreFrame

(* add_daily_summary, lines 311-319: load_summary_file and the assignment *)
StoreLoad(w) ==
    /\ workers[w].pc = "load"
    /\ workers' = [workers EXCEPT ![w] =
          [@ EXCEPT !.pc = "save",
                    !.loaded_state = summary_file.state,
                    !.loaded = load_summary_file,
                    !.summaries = SetEntry(load_summary_file, workers[w].entry[1])]]
    /\ UNCHANGED <<time_now, recorded, summary_file>>
    /\ StoreFrame

(* save_summary_file, line 289: open(SUMMARY_FILE, 'w') empties the file, or
   raises and leaves it as it was *)
StoreOpen(w) ==
    /\ workers[w].pc = "save"
    /\ \E opened \in BOOLEAN :
          IF opened
          THEN /\ summary_file' = [state |-> "truncated", data |-> {}]
               /\ workers' = [workers EXCEPT ![w].pc = "dump"]
          ELSE /\ summary_file' = summary_file
               /\ workers' = [workers EXCEPT ![w] =
                     [@ EXCEPT !.pc = "done", !.io_failed = TRUE, !.reply = <<FALSE>>]]
    /\ UNCHANGED <<time_now, recorded>>
    /\ StoreFrame

(* save_summary_file, lines 290-295, and add_daily_summary, lines 322-326:
   json.dump writes the mapping, or raises and leaves a part of it; the entries
   recorded so far are then lost with the file, and recorded and seen forget
   them *)
StoreDump(w) ==
    /\ workers[w].pc = "dump"
    /\ \E dumped \in BOOLEAN :
          IF dumped
          THEN /\ summary_file' = [state |-> "ok", data |-> workers[w].summaries]
               /\ workers' = [workers EXCEPT ![w] =
                     [@ EXCEPT !.pc = "done", !.reply = <<TRUE>>]]
               /\ recorded' = recorded \cup {workers[w].entry[1].date}
          ELSE /\ summary_file' = [state |-> "corrupt", data |-> {}]
               /\ workers' = [v \in DOMAIN workers |->
                     IF v = w
                     THEN [workers[v] EXCEPT !.pc = "done", !.io_failed = TRUE,
                                             !.reply = <<FALSE>>, !.seen = {}]
                     ELSE [workers[v] EXCEPT !.seen = {}]]
               /\ recorded' = {}
    /\ UNCHANGED time_now
    /\ StoreFrame

(* get_historical_summary, lines 332-345 *)
StoreHistorical(w) ==
    /\ workers[w].pc = "start"
    /\ workers[w].req = "HISTORICAL"
    /\ workers' = [workers EXCEPT ![w] =
          [@ EXCEPT !.pc = "done", !.loaded_state = summary_file.state,
                    !.reply = <<get_historical_summary.body>>]]
    /\ UNCHANGED <<time_now, recorded, summary_file>>
    /\ StoreFrame

NextStore ==
    \/ StoreTick
    \/ \E w \in DOMAIN workers : StoreAccept(w)
    \/ \E w \in DOMAIN workers : StoreGetSummary(w)
    \/ \E w \in DOMAIN workers : StoreLoad(w)
    \/ \E w \in DOMAIN workers : StoreOpen(w)
    \/ \E w \in DOMAIN workers : StoreDump(w)
    \/ \E w \in DOMAIN workers : StoreHistorical(w)

SpecStoreSeq == InitStoreSeq /\ [][NextStore]_vars

SpecStore == InitStore /\ [][NextStore]_vars

----------------------------------------------------------------------------
(* smart_thermostat.py: the connection loop of read_arduino, lines 190-276.

   reader.pc is the position of the thread:
     "connect"      line 193, serial.Serial(ARDUINO_PORT, ...)
     "settle"       line 197, time.sleep(2), followed by the first time sync
     "reading"      line 202, the top of the inner loop
     "sleep_error"  line 267, time.sleep(1) of the inner `except Exception`
     "sleep_retry"  lines 271 and 275, time.sleep(5) of the outer handlers
   reader.wait is what is left of the sleep, in seconds, and reader.dead says
   that the device behind the open arduino_serial has gone, so that every call
   on it raises.  link_up is the environment: serial.Serial succeeds iff the
   device is there. *)

SettleSleep == 2
ReadErrorSleep == 1
RetrySleep == 5

LinkMaxOut == 2

(* sync_time_to_arduino, lines 53-62: ser.write raises on a dead handle and the
   function logs it; the written lines are kept up to LinkMaxOut *)
sync_time_to_arduino(dead) ==
    IF ~dead /\ Len(serial_out) < LinkMaxOut
    THEN Append(serial_out, <<"TIME:", "unix_time">>)
    ELSE serial_out

(* lines 41-45 and 190: the thread is about to connect for the first time *)
InitLink ==
    /\ ParseIdle /\ FmtIdle /\ StoreIdle /\ SchedIdle /\ MonIdle /\ SvcIdle /\ CtlIdle
    /\ reader = [pc |-> "connect", dead |-> FALSE, wait |-> 0]
    /\ link_up \in BOOLEAN

LinkFrame ==
    /\ UNCHANGED <<time_now, alert_sent, next_check, alerts, notif_outbox>>
    /\ UNCHANGED <<svc, hpc, request, response, summary_file, telegram_sent>>
    /\ UNCHANGED <<parseVars, fmtVars, storeVars, schedVars, ctlVars>>

LinkGlobalsUnchanged ==
    UNCHANGED <<last_heartbeat, thermostat_status, thermostat_mode, dev_line,
                hb_since_check>>

(* line 193, and lines 269-276 when it raises *)
LinkConnect ==
    /\ reader.pc = "connect"
    /\ IF link_up
       THEN /\ arduino_open' = TRUE
            /\ reader' = [pc |-> "settle", dead |-> FALSE, wait |-> SettleSleep]
       ELSE /\ arduino_open' = arduino_open
            /\ reader' = [pc |-> "sleep_retry", dead |-> reader.dead,
                          wait |-> RetrySleep]
    /\ UNCHANGED <<link_up, serial_out>>
    /\ LinkGlobalsUnchanged
    /\ LinkFrame

(* a second of a time.sleep passes *)
LinkSleep ==
    /\ reader.wait > 0
    /\ reader' = [reader EXCEPT !.wait = @ - 1]
    /\ UNCHANGED <<link_up, arduino_open, serial_out>>
    /\ LinkGlobalsUnchanged
    /\ LinkFrame

(* lines 272 and 276: `continue` of the outer loop *)
LinkRetry ==
    /\ reader.pc = "sleep_retry"
    /\ reader.wait = 0
    /\ reader' = [reader EXCEPT !.pc = "connect"]
    /\ UNCHANGED <<link_up, arduino_open, serial_out>>
    /\ LinkGlobalsUnchanged
    /\ LinkFrame

(* line 198: the initial time sync, then the inner loop *)
LinkSync ==
    /\ reader.pc = "settle"
    /\ reader.wait = 0
    /\ serial_out' = sync_time_to_arduino(reader.dead)
    /\ reader' = [reader EXCEPT !.pc = "reading"]
    /\ UNCHANGED <<link_up, arduino_open>>
    /\ LinkGlobalsUnchanged
    /\ LinkFrame

(* lines 201-267: one pass of the inner loop that does something.  On a dead
   handle in_waiting raises and the inner `except Exception` takes it; else a
   line is read and handled. *)
LinkRead ==
    /\ reader.pc = "reading"
    /\ IF reader.dead
       THEN /\ reader' = [reader EXCEPT !.pc = "sleep_error", !.wait = ReadErrorSleep]
            /\ UNCHANGED serial_out
            /\ LinkGlobalsUnchanged
       ELSE \E parts \in DeviceLines :
               /\ dev_line' = parts
               /\ last_heartbeat' = read_arduino(parts).last_heartbeat
               /\ thermostat_status' = read_arduino(parts).thermostat_status
               /\ thermostat_mode' = read_arduino(parts).thermostat_mode
               /\ hb_since_check' = (hb_since_check \/ HeartbeatBearing(parts))
               /\ serial_out' = IF parts = <<"READY">>
                                THEN sync_time_to_arduino(FALSE)
                                ELSE serial_out
               /\ UNCHANGED reader
    /\ UNCHANGED <<link_up, arduino_open>>
    /\ LinkFrame

(* line 267 returns: the inner `while True` goes round again *)
LinkReadResume ==
    /\ reader.pc = "sleep_error"
    /\ reader.wait = 0
    /\ reader' = [reader EXCEPT !.pc = "reading"]
    /\ UNCHANGED <<link_up, arduino_open, serial_out>>
    /\ LinkGlobalsUnchanged
    /\ LinkFrame

(* the device is unplugged or loses power: an open handle is dead from now on *)
LinkDrop ==
    /\ link_up
    /\ link_up' = FALSE
    /\ reader' = [reader EXCEPT !.dead = arduino_open]
    /\ UNCHANGED <<arduino_open, serial_out>>
    /\ LinkGlobalsUnchanged
    /\ LinkFrame

(* the device comes back: a handle opened before the failure may or may not
   work again *)
LinkRestore ==
    /\ ~link_up
    /\ link_up' = TRUE
    /\ \E d \in {reader.dead, FALSE} : reader' = [reader EXCEPT !.dead = d]
    /\ UNCHANGED <<arduino_open, serial_out>>
    /\ LinkGlobalsUnchanged
    /\ LinkFrame

ReaderStep ==
    \/ LinkConnect
    \/ LinkSleep
    \/ LinkRetry
    \/ LinkSync
    \/ LinkRead
    \/ LinkReadResume

NextLink ==
    \/ ReaderStep
    \/ LinkDrop
    \/ LinkRestore

SpecLink == InitLink /\ [][NextLink]_vars

(* read_arduino is the main thread (line 295): it always gets to run *)
SpecLinkFair == SpecLink /\ WF_vars(ReaderStep)

----------------------------------------------------------------------------
(* telegram_controller.py: the schedule and its file, lines 172-193 and the
   commands that change it, lines 331-437.

   schedule_file.state is what open(schedule_file, 'r') and json.load find:
     "missing"  open raises
     "corrupt"  json.load raises, or the document is not an object
     "no_key"   an object without the key 'schedules'
     "ok"       an object whose 'schedules' is schedule_file.data
   schedule_file.writable is what open(schedule_file, 'w') and json.dump do:
     "yes"      both succeed
     "no"       open raises and the file is left as it was
     "full"     open truncates the file and json.dump raises
   sched_sync is <<>> until the process has started; then it holds what the
   last send_schedule_to_arduino sent, each command with the answer
   send_command returned for it, and what the sync returned.
   The command handlers are coroutines of one event loop and load_schedule,
   save_schedule and send_schedule_to_arduino do not await, so a handler runs
   as one step. *)

MaxSchedules == 5

Sched(name, sh, sm, eh, em) ==
    [name |-> name, startHour |-> sh, startMinute |-> sm, endHour |-> eh,
     endMinute |-> em]

(* lines 181-184 *)
DefaultSchedule ==
    << Sched("Morning", 6, 0, 8, 0), Sched("Evening", 17, 0, 22, 0) >>

(* what the user sends with /add, /edit and /delete *)
AddInputs == { Sched("Night", 22, 30, 23, 30) }
EditInputs == { <<7, 30, 9, 0>> }
IndexInputs == {0, 1, 5}

(* save_schedule, lines 187-193, called with current_schedule = schedules *)
save_schedule(file, schedules) ==
    IF file.writable = "yes"
    THEN [file EXCEPT !.state = "ok", !.data = schedules]
    ELSE IF file.writable = "full"
    THEN [file EXCEPT !.state = "corrupt", !.data = <<>>]
    ELSE file

(* variant: the default schedule is not written back *)
load_schedule_keeps_file(file) ==
    IF file.state = "ok"
    THEN [current_schedule |-> file.data, schedule_file |-> file]
    ELSE IF file.state = "no_key"
    THEN [current_schedule |-> <<>>, schedule_file |-> file]
    ELSE [current_schedule |-> DefaultSchedule, schedule_file |-> file]

(* load_schedule, lines 172-185: the global and the file after the call *)
load_schedule(file) ==
    IF file.state = "ok"
    THEN [current_schedule |-> file.data, schedule_file |-> file]
    ELSE IF file.state = "no_key"
    THEN [current_schedule |-> <<>>, schedule_file |-> file]
    ELSE [current_schedule |-> DefaultSchedule,
          schedule_file |-> save_schedule(file, DefaultSchedule)]

(* line 207: the message of entry i, counted from 0 *)
SchedCommand(i, sched) ==
    <<"SCHED:", i, sched.startHour, sched.startMinute, sched.endHour, sched.endMinute>>

(* variant: the schedules are sent whether or not CLEAR_SCHED succeeded *)
send_schedule_to_arduino_ignores_clear(schedules, acks) ==
    [sent |-> <<[command |-> <<"CLEAR_SCHED">>, ack |-> acks[1]]>>
              \o [i \in 1..Len(schedules) |->
                     [command |-> SchedCommand(i - 1, schedules[i]), ack |-> acks[i + 1]]],
     ok |-> TRUE]

(* send_schedule_to_arduino, lines 195-216, with current_schedule = schedules;
   acks[k] is what send_command (lines 64-83) returns for the k-th command *)
send_schedule_to_arduino(schedules, acks) ==
    IF ~acks[1]
    THEN [sent |-> <<[command |-> <<"CLEAR_SCHED">>, ack |-> FALSE]>>, ok |-> FALSE]
    ELSE [sent |-> <<[command |-> <<"CLEAR_SCHED">>, ack |-> TRUE]>>
                   \o [i \in 1..Len(schedules) |->
                          [command |-> SchedCommand(i - 1, schedules[i]),
                           ack |-> acks[i + 1]]],
          ok |-> TRUE]

(* the answers the commands of a sync of n schedules get: at most one of them
   is a failure *)
Acks(n) == {a \in [1..(n + 1) -> BOOLEAN] : Cardinality({k \in 1..(n + 1) : ~a[k]}) <= 1}

(* list.pop(index) *)
Pop(s, index) ==
    [i \in 1..(Len(s) - 1) |-> IF i <= index THEN s[i] ELSE s[i + 1]]

(* line 57; the file is whatever the last run left *)
InitSched ==
    /\ ParseIdle /\ FmtIdle /\ MonIdle /\ SvcIdle /\ StoreIdle /\ LinkIdle /\ CtlIdle
    /\ current_schedule = <<>>
    /\ \E st \in {"missing", "corrupt", "no_key"}, wr \in {"yes", "no", "full"} :
          schedule_file = [state |-> st, data |-> <<>>, writable |-> wr]
    /\ sched_sync = <<>>

SchedFrame ==
    UNCHANGED <<parseVars, fmtVars, monVars, svcVars, storeVars, linkVars, ctlVars>>

(* lines 576-587: the schedule is loaded and sent before the bot starts *)
Startup ==
    /\ sched_sync = <<>>
    /\ LET l == load_schedule(schedule_file)
       IN /\ current_schedule' = l.current_schedule
          /\ schedule_file' = l.schedule_file
          /\ \E acks \in Acks(Len(l.current_schedule)) :
                sched_sync' = send_schedule_to_arduino(l.current_schedule, acks)
    /\ SchedFrame

(* cmd_schedule, line 333 *)
LoadSchedule ==
    /\ sched_sync # <<>>
    /\ current_schedule' = load_schedule(schedule_file).current_schedule
    /\ schedule_file' = load_schedule(schedule_file).schedule_file
    /\ UNCHANGED sched_sync
    /\ SchedFrame

(* cmd_edit, lines 358-370 *)
CmdEdit ==
    /\ sched_sync # <<>>
    /\ \E index \in IndexInputs, t \in EditInputs :
          LET l == load_schedule(schedule_file)
          IN IF index < 0 \/ index >= Len(l.current_schedule)
             THEN /\ current_schedule' = l.current_schedule
                  /\ schedule_file' = l.schedule_file
                  /\ UNCHANGED sched_sync
             ELSE LET edited ==
                          [l.current_schedule EXCEPT
                              ![index + 1] = [@ EXCEPT !.startHour = t[1],
                                                       !.startMinute = t[2],
                                                       !.endHour = t[3],
                                                       !.endMinute = t[4]]]
                  IN /\ current_schedule' = edited
                     /\ schedule_file' = save_schedule(l.schedule_file, edited)
                     /\ \E acks \in Acks(Len(edited)) :
                           sched_sync' = send_schedule_to_arduino(edited, acks)
    /\ SchedFrame

(* cmd_add, lines 392-408 *)
CmdAdd ==
    /\ sched_sync # <<>>
    /\ \E new_schedule \in AddInputs :
          LET l == load_schedule(schedule_file)
          IN IF Len(l.current_schedule) >= MaxSchedules
             THEN /\ current_schedule' = l.current_schedule
                  /\ schedule_file' = l.schedule_file
                  /\ UNCHANGED sched_sync
             ELSE LET added == Append(l.current_schedule, new_schedule)
                  IN /\ current_schedule' = added
                     /\ schedule_file' = save_schedule(l.schedule_file, added)
                     /\ \E acks \in Acks(Len(added)) :
                           sched_sync' = send_schedule_to_arduino(added, acks)
    /\ SchedFrame

(* cmd_delete, lines 425-433 *)
CmdDelete ==
    /\ sched_sync # <<>>
    /\ \E index \in IndexInputs :
          LET l == load_schedule(schedule_file)
          IN IF index < 0 \/ index >= Len(l.current_schedule)
             THEN /\ current_schedule' = l.current_schedule
                  /\ schedule_file' = l.schedule_file
                  /\ UNCHANGED sched_sync
             ELSE LET popped == Pop(l.current_schedule, index)
                  IN /\ current_schedule' = popped
                     /\ schedule_file' = save_schedule(l.schedule_file, popped)
                     /\ \E acks \in Acks(Len(popped)) :
                           sched_sync' = send_schedule_to_arduino(popped, acks)
    /\ SchedFrame

(* the file is deleted, damaged or replaced from outside the process *)
FileChanges ==
    /\ \E st \in {"missing", "corrupt", "no_key"} :
          schedule_file' = [schedule_file EXCEPT !.state = st, !.data = <<>>]
    /\ UNCHANGED <<current_schedule, sched_sync>>
    /\ SchedFrame

(* the file system changes: read-only, full, or writable again *)
StorageChanges ==
    /\ \E wr \in {"yes", "no", "full"} :
          schedule_file' = [schedule_file EXCEPT !.writable = wr]
    /\ UNCHANGED <<current_schedule, sched_sync>>
    /\ SchedFrame

NextSched ==
    \/ Startup
    \/ LoadSchedule
    \/ CmdEdit
    \/ CmdAdd
    \/ CmdDelete
    \/ FileChanges
    \/ StorageChanges

SpecSched == InitSched /\ [][NextSched]_vars

----------------------------------------------------------------------------
(* smart_thermostat.py: the three threads on the module globals.  read_arduino
   (the main thread) assigns last_heartbeat, thermostat_status and
   thermostat_mode in separate statements (lines 242, 248 and 250, or 221-222);
   a handle_command_connection thread evaluates the GET_STATUS dict entry by
   entry (lines 114-119); heartbeat_monitor checks every MonitorSleep seconds.
   The interpreter may switch threads between any two of these steps.

   reader.pc here is "reading" (line 202), "line_read" (the branch is chosen),
   "heartbeat_set" and "status_set".  A branch that does not assign one of
   the globals passes its step without a change.  get_status.reply is the
   values evaluated so far, get_status.held the values the three globals have
   held together since the request was received.  One connection is followed
   from accept to close. *)

(* the model starts when the timeout has just passed in silence and follows
   the time up to the next check *)
SharedStart == HEARTBEAT_TIMEOUT
SharedMaxNow == HEARTBEAT_TIMEOUT + MonitorSleep

SharedLines ==
    { <<"HEARTBEAT", "12", "30", "ON", "MANUAL_ON">>,
      <<"STATUS", "STOPPED">> }

SharedRequests == { <<"GET_STATUS", "">>, <<"OVERRIDE:", "ON">>, <<"txt", "">> }

Globals == <<thermostat_status, thermostat_mode, last_heartbeat>>

(* the device has been silent for SharedStart seconds; one check is due *)
InitShared ==
    /\ ParseIdle /\ FmtIdle /\ StoreIdle /\ SchedIdle /\ CtlIdle
    /\ time_now = SharedStart
    /\ last_heartbeat = 0
    /\ thermostat_status = "UNKNOWN"
    /\ thermostat_mode = "AUTO"
    /\ alert_sent = FALSE
    /\ next_check = SharedStart + MonitorSleep
    /\ dev_line = <<>>
    /\ alerts = <<>>
    /\ notif_outbox = <<>>
    /\ hb_since_check = FALSE
    /\ svc = "none"
    /\ hpc = "idle"
    /\ request = <<>>
    /\ response = <<>>
    /\ arduino_open = TRUE
    /\ serial_out = <<>>
    /\ summary_file = [state |-> "missing", data |-> {}]
    /\ telegram_sent = <<>>
    /\ reader = [pc |-> "reading", dead |-> FALSE, wait |-> 0]
    /\ link_up = TRUE

SharedFrame == UNCHANGED <<parseVars, fmtVars, storeVars, schedVars, link_up>>

(* time passes, up to the time heartbeat_monitor wakes *)
SharedTick ==
    /\ \E d \in TimeSteps :
          /\ time_now + d <= next_check
          /\ time_now + d <= SharedMaxNow
          /\ time_now' = time_now + d
    /\ UNCHANGED <<last_heartbeat, thermostat_status, thermostat_mode, alert_sent,
                   next_check, dev_line, alerts, notif_outbox, hb_since_check>>
    /\ UNCHANGED <<svcVars, reader, ctlVars>>
    /\ SharedFrame

(* heartbeat_monitor, lines 174-184 *)
SharedMonitor ==
    /\ time_now = next_check
    /\ LET check == heartbeat_monitor(time_now - last_heartbeat, alert_sent)
       IN /\ alert_sent' = check.alert_sent
          /\ alerts' = alerts \o check.log
    /\ next_check' = time_now + MonitorSleep
    /\ hb_since_check' = FALSE
    /\ UNCHANGED <<time_now, last_heartbeat, thermostat_status, thermostat_mode,
                   dev_line, notif_outbox>>
    /\ UNCHANGED <<svcVars, reader, ctlVars>>
    /\ SharedFrame

(* what the globals hold is noted while a GET_STATUS is being answered *)
Hold(globals) ==
    IF request = <<"GET_STATUS", "">> /\ hpc \in {"process", "read_mode", "read_heartbeat"}
    THEN [get_status EXCEPT !.held = @ \cup {globals}]
    ELSE get_status

(* lines 202-203: readline returns a line *)
SharedTakeLine ==
    /\ reader.pc = "reading"
    /\ \E parts \in SharedLines : dev_line' = parts
    /\ reader' = [reader EXCEPT !.pc = "line_read"]
    /\ UNCHANGED <<time_now, last_heartbeat, thermostat_status, thermostat_mode,
                   alert_sent, next_check, alerts, notif_outbox, hb_since_check>>
    /\ UNCHANGED <<svcVars, ctlVars>>
    /\ SharedFrame

(* lines 221, 225, 229, 233 and 242: last_heartbeat = time.time() *)
SharedSetHeartbeat ==
    /\ reader.pc = "line_read"
    /\ last_heartbeat' = read_arduino(dev_line).last_heartbeat
    /\ hb_since_check' = (hb_since_check \/ HeartbeatBearing(dev_line))
    /\ reader' = [reader EXCEPT !.pc = "heartbeat_set"]
    /\ get_status' = Hold(<<thermostat_status, thermostat_mode, last_heartbeat'>>)
    /\ UNCHANGED <<time_now, thermostat_status, thermostat_mode, alert_sent,
                   next_check, dev_line, alerts, notif_outbox>>
    /\ UNCHANGED svcVars
    /\ SharedFrame

(* lines 222, 226, 230, 234 and 248: thermostat_status = ... *)
SharedSetStatus ==
    /\ reader.pc = "heartbeat_set"
    /\ thermostat_status' = read_arduino(dev_line).thermostat_status
    /\ reader' = [reader EXCEPT !.pc = "status_set"]
    /\ get_status' = Hold(<<thermostat_status', thermostat_mode, last_heartbeat>>)
    /\ UNCHANGED <<time_now, last_heartbeat, thermostat_mode, alert_sent,
                   next_check, dev_line, alerts, notif_outbox, hb_since_check>>
    /\ UNCHANGED svcVars
    /\ SharedFrame

(* lines 238 and 250: thermostat_mode = ... *)
SharedSetMode ==
    /\ reader.pc = "status_set"
    /\ thermostat_mode' = read_arduino(dev_line).thermostat_mode
    /\ reader' = [reader EXCEPT !.pc = "reading"]
    /\ get_status' = Hold(<<thermostat_status, thermostat_mode', last_heartbeat>>)
    /\ UNCHANGED <<time_now, last_heartbeat, thermostat_status, alert_sent,
                   next_check, dev_line, alerts, notif_outbox, hb_since_check>>
    /\ UNCHANGED svcVars
    /\ SharedFrame

SharedMonUnchanged == UNCHANGED <<monVars, reader>>

(* accept() of command_server and the start of the handler's thread *)
SharedAccept ==
    /\ hpc = "idle"
    /\ svc' = "control"
    /\ hpc' = "recv"
    /\ request' = <<>>
    /\ response' = <<>>
    /\ get_status' = [reply |-> <<>>, held |-> {}]
    /\ UNCHANGED <<arduino_open, serial_out, summary_file, telegram_sent>>
    /\ SharedMonUnchanged
    /\ SharedFrame

(* line 83: recv() returns a request *)
SharedRecv ==
    /\ hpc = "recv"
    /\ \E data \in SharedRequests :
          /\ request' = data
          /\ get_status' = IF data = <<"GET_STATUS", "">>
                           THEN [reply |-> <<>>, held |-> {Globals}]
                           ELSE get_status
    /\ hpc' = "process"
    /\ UNCHANGED <<svc, response, arduino_open, serial_out, summary_file, telegram_sent>>
    /\ SharedMonUnchanged
    /\ SharedFrame

(* variant: a command that was sent updates the mode at once *)
SharedProcessSetsMode ==
    /\ hpc = "process"
    /\ request # <<"GET_STATUS", "">>
    /\ \E write_ok, send_ok \in BOOLEAN :
          LET h == handle_command_connection(request, write_ok)
          IN /\ serial_out' = h.serial_out
             /\ response' = (IF send_ok THEN <<h.response>> ELSE response)
             /\ hpc' = (IF send_ok THEN "close" ELSE "except")
             /\ thermostat_mode' = (IF h.response.status = "success"
                                    THEN "MANUAL_ON" ELSE thermostat_mode)
    /\ UNCHANGED <<svc, request, arduino_open, summary_file, telegram_sent>>
    /\ UNCHANGED <<time_now, last_heartbeat, thermostat_status, alert_sent,
                   next_check, dev_line, alerts, notif_outbox, hb_since_check>>
    /\ UNCHANGED <<reader, ctlVars>>
    /\ SharedFrame

(* lines 93-111 and 121-125: a request other than GET_STATUS *)
SharedProcess ==
    /\ hpc = "process"
    /\ request # <<"GET_STATUS", "">>
    /\ \E write_ok, send_ok \in BOOLEAN :
          LET h == handle_command_connection(request, write_ok)
          IN /\ serial_out' = h.serial_out
             /\ response' = (IF send_ok THEN <<h.response>> ELSE response)
             /\ hpc' = (IF send_ok THEN "close" ELSE "except")
             /\ thermostat_mode' = thermostat_mode
    /\ UNCHANGED <<svc, request, arduino_open, summary_file, telegram_sent>>
    /\ UNCHANGED <<time_now, last_heartbeat, thermostat_status, alert_sent,
                   next_check, dev_line, alerts, notif_outbox, hb_since_check>>
    /\ UNCHANGED <<reader, ctlVars>>
    /\ SharedFrame

(* line 116: thermostat_status is evaluated *)
SharedReadStatus ==
    /\ hpc = "process"
    /\ request = <<"GET_STATUS", "">>
    /\ get_status' = [get_status EXCEPT !.reply = <<thermostat_status>>]
    /\ hpc' = "read_mode"
    /\ UNCHANGED <<svc, request, response, arduino_open, serial_out, summary_file,
                   telegram_sent>>
    /\ SharedMonUnchanged
    /\ SharedFrame

(* line 117: thermostat_mode is evaluated *)
SharedReadMode ==
    /\ hpc = "read_mode"
    /\ get_status' = [get_status EXCEPT !.reply = Append(@, thermostat_mode)]
    /\ hpc' = "read_heartbeat"
    /\ UNCHANGED <<svc, request, response, arduino_open, serial_out, summary_file,
                   telegram_sent>>
    /\ SharedMonUnchanged
    /\ SharedFrame

(* line 118: last_heartbeat is evaluated *)
SharedReadHeartbeat ==
    /\ hpc = "read_heartbeat"
    /\ get_status' = [get_status EXCEPT !.reply = Append(@, last_heartbeat)]
    /\ hpc' = "send"
    /\ UNCHANGED <<svc, request, response, arduino_open, serial_out, summary_file,
                   telegram_sent>>
    /\ SharedMonUnchanged
    /\ SharedFrame

(* line 125: the response is sent *)
SharedSend ==
    /\ hpc = "send"
    /\ \E send_ok \in BOOLEAN :
          /\ response' = (IF send_ok
                          THEN <<DictResponse("success", get_status.reply)>>
                          ELSE response)
          /\ hpc' = (IF send_ok THEN "close" ELSE "except")
    /\ UNCHANGED <<svc, request, arduino_open, serial_out, summary_file, telegram_sent>>
    /\ UNCHANGED ctlVars
    /\ SharedMonUnchanged
    /\ SharedFrame

(* lines 129-140: the except block and the close *)
SharedExcept ==
    /\ hpc = "except"
    /\ \E send_ok \in BOOLEAN :
          response' = (IF send_ok
                       THEN Append(response, DictResponse("error", "exception"))
                       ELSE response)
    /\ hpc' = "close"
    /\ UNCHANGED <<svc, request, arduino_open, serial_out, summary_file, telegram_sent>>
    /\ UNCHANGED ctlVars
    /\ SharedMonUnchanged
    /\ SharedFrame

SharedClose ==
    /\ hpc = "close"
    /\ hpc' = "closed"
    /\ UNCHANGED <<svc, request, response, arduino_open, serial_out, summary_file,
                   telegram_sent>>
    /\ UNCHANGED ctlVars
    /\ SharedMonUnchanged
    /\ SharedFrame

SharedReader ==
    \/ SharedTakeLine
    \/ SharedSetHeartbeat
    \/ SharedSetStatus
    \/ SharedSetMode

SharedHandler ==
    \/ SharedAccept
    \/ SharedRecv
    \/ SharedProcess
    \/ SharedReadStatus
    \/ SharedReadMode
    \/ SharedReadHeartbeat
    \/ SharedSend
    \/ SharedExcept
    \/ SharedClose

NextShared ==
    \/ SharedTick
    \/ SharedMonitor
    \/ SharedReader
    \/ SharedHandler

SpecShared == InitShared /\ [][NextShared]_vars

----------------------------------------------------------------------------
(* The session reconstructor (parse_logs) *)

(* the line is taken by parse_logs as a start / as a stop *)
StartedEvent(l) ==
    StartsWithBracket(l) /\ TimestampParses(l) /\ InLine("STATUS:STARTED", l)

StoppedEvent(l) ==
    /\ StartsWithBracket(l) /\ TimestampParses(l)
    /\ ~InLine("STATUS:STARTED", l) /\ InLine("STATUS:STOPPED", l)

(* the four status messages of the device *)
StatusTokens ==
    {<<"STATUS:STARTED">>, <<"STATUS:STOPPED">>,
     <<"STATUS:STARTED", "_MANUAL">>, <<"STATUS:STOPPED", "_MANUAL">>}

(* the line is the log record of one of the four status messages of the device *)
DeviceStatusLine(l) == l.src = "Arduino" /\ l.text \in StatusTokens

(* the text holds the token: its chunks, adjacent and in order *)
Carries(l, token) ==
    \E k \in 1..Len(l.text) :
        /\ k + Len(token) - 1 <= Len(l.text)
        /\ SubSeq(l.text, k, k + Len(token) - 1) = token

(* the text holds STATUS:STARTED not followed by _MANUAL *)
CarriesPlainStarted(l) ==
    \E k \in 1..Len(l.text) :
        /\ l.text[k] = "STATUS:STARTED"
        /\ (k = Len(l.text) \/ l.text[k + 1] # "_MANUAL")

\* C1: every session parse_logs emits has end strictly greater than start,
\* also when a STARTED line and the next STATUS line carry the same second.
C1_EndAfterStart ==
    \A k \in 1..Len(sessions) : sessions[k].end_time > sessions[k].start_time

C3_StartedTransition ==
    [][(pc = "body" /\ StartedEvent(line)) =>
         /\ Len(current_session') = 1
         /\ current_session'[1].start_time = line.ts
         /\ current_session'[1].end_time = NoneTime
         /\ IF current_session # <<>>
            THEN sessions' = Append(sessions,
                                    [current_session[1] EXCEPT !.end_time = line.ts])
            ELSE sessions' = sessions]_vars

C3_Witness ==
    /\ pc = "loop"
    /\ branch = "close_open"
    /\ Len(sessions) >= 1
    /\ IsOpen(current_session)
    /\ sessions[Len(sessions)].end_time = current_session[1].start_time
    /\ sessions[Len(sessions)].start_time < sessions[Len(sessions)].end_time

\* C4: a STOPPED event with no open session changes nothing: no session is
\* emitted and the reconstructor state (sessions, current_session) is unchanged,
\* so duplicate STOPPED events after the first leave the emitted list as it was.
C4_StoppedIgnored ==
    [][(pc = "body" /\ StoppedEvent(line) /\ ~IsOpen(current_session)) =>
         UNCHANGED <<sessions, current_session>>]_vars

C4_Witness ==
    /\ pc = "loop"
    /\ branch = "stop_ignored"
    /\ Len(sessions) = 1
    /\ sessions[1].end_time < clock

\* C5: a session still open when the log ends is never emitted: the returned
\* list is the list of closed sessions, each of them ended by the time the open
\* session started, and no runtime is counted from the open session's start on.
C5_OpenSessionNotEmitted ==
    (pc \in {"parsed", "done"} /\ IsOpen(current_session)) =>
        /\ Len(result) = Len(sessions)
        /\ \A k \in 1..Len(result) :
              /\ is_complete(result[k])
              /\ result[k].end_time <= current_session[1].start_time
        /\ calculate_runtime_for_period(result, current_session[1].start_time,
                                        clock + DaySeconds).total_seconds = 0
        /\ (pc = "done" /\ summary.status = "success") =>
              summary = get_summary(sessions, summary.timestamp)

C5_Witness ==
    /\ pc = "done"
    /\ IsOpen(current_session)
    /\ current_session[1].start_time < clock
    /\ Len(result) = 1
    /\ summary.status = "success"

\* C6: a log line whose device message is not one of the four STATUS tokens
\* never opens, closes or emits a session, whatever text it contains.
C6_OnlyStatusLinesAct ==
    [][(pc = "body" /\ ~DeviceStatusLine(line)) =>
         UNCHANGED <<sessions, current_session>>]_vars

\* C7: a session is MANUAL exactly when the line that opened it carries the
\* token STATUS:STARTED_MANUAL and AUTO exactly when it carries STATUS:STARTED,
\* and the closing event does not change the kind.
C7_KindFromOpeningToken ==
    [][(pc = "body") =>
         /\ (current_session' # <<>> /\ current_session' # current_session) =>
               /\ current_session'[1].session_type = "MANUAL"
                     <=> Carries(line, <<"STATUS:STARTED", "_MANUAL">>)
               /\ current_session'[1].session_type = "AUTO"
                     <=> (CarriesPlainStarted(line)
                          /\ ~Carries(line, <<"STATUS:STARTED", "_MANUAL">>))
         /\ (Len(sessions') > Len(sessions) /\ current_session # <<>>) =>
               sessions'[Len(sessions')].session_type = current_session[1].session_type]_vars

\* C8: a line with no bracketed timestamp, an unparseable timestamp or
\* unrecognized content yields no event and raises nothing: the loop goes on to
\* the next line with sessions and current_session as they were, so the emitted
\* sessions are those of the same log without that line.
RejectedLine(l) ==
    \/ ~StartsWithBracket(l)
    \/ ~TimestampParses(l)
    \/ (~InLine("STATUS:STARTED", l) /\ ~InLine("STATUS:STOPPED", l))

C8_RejectedLineIsSkipped ==
    [][(pc = "body" /\ RejectedLine(line)) =>
         (pc' = "loop" /\ UNCHANGED <<sessions, current_session, result>>)]_vars

C8_Witness ==
    /\ pc = "loop"
    /\ branch = "skip_timestamp"
    /\ IsOpen(current_session)
    /\ nlines < MaxLines

----------------------------------------------------------------------------
(* The runtime aggregator *)

(* the seconds session s shares with the period [ps, pe] *)
ClampOverlap(s, ps, pe) ==
    LET lo == IF s.start_time > ps THEN s.start_time ELSE ps
        hi == IF s.end_time < pe THEN s.end_time ELSE pe
    IN IF hi - lo > 0 THEN hi - lo ELSE 0

RECURSIVE SumClampOverlap(_, _, _)
SumClampOverlap(ss, ps, pe) ==
    IF ss = <<>> THEN 0
    ELSE ClampOverlap(ss[1], ps, pe) + SumClampOverlap(Tail(ss), ps, pe)

CountOverlapping(ss, ps, pe) ==
    Cardinality({k \in 1..Len(ss) : ClampOverlap(ss[k], ps, pe) > 0})

\* C9: calculate_runtime_for_period returns total_seconds equal to the sum over
\* the sessions of max(0, min(s.end, P.end) - max(s.start, P.start)) and
\* session_count equal to the number of sessions with a positive overlap; a
\* session with s.end <= P.start or s.start >= P.end adds nothing and is not
\* counted (nor listed).
C9_RuntimeIsSumOfOverlaps ==
    pc = "agg_done" =>
        /\ runtime.total_seconds = SumClampOverlap(result, period[1], period[2])
        /\ runtime.session_count = CountOverlapping(result, period[1], period[2])
        /\ Len(runtime.period_sessions) = runtime.session_count
        /\ \A k \in 1..Len(runtime.period_sessions) :
              /\ runtime.period_sessions[k].duration > 0
              /\ runtime.period_sessions[k].start >= period[1]
              /\ runtime.period_sessions[k].end <= period[2]
        /\ (\A k \in 1..Len(result) :
               result[k].end_time <= period[1] \/ result[k].start_time >= period[2])
           => (runtime.total_seconds = 0 /\ runtime.session_count = 0)

C9_Witness ==
    /\ pc = "agg_done"
    /\ Len(result) = 2
    /\ runtime.session_count = 1
    /\ runtime.total_seconds = 1
    /\ result[1].end_time - result[1].start_time = 2
    /\ result[2].end_time = period[1]

\* C10: the 7-day average reported by SUMMARY is floor(last_7_days total / 7),
\* the divisor being 7 whatever number of days hold sessions.
C10_AverageIsTotalOverSeven ==
    (pc = "done" /\ summary.status = "success") =>
        LET seven_start == (summary.timestamp - (summary.timestamp % DaySeconds))
                           - 6 * DaySeconds
            total == SumClampOverlap(result, seven_start, summary.timestamp)
        IN /\ summary.last_7_days.runtime_seconds = total
           /\ summary.last_7_days.average_per_day = format_seconds(total \div 7)

C10_Witness ==
    /\ pc = "done"
    /\ summary.status = "success"
    /\ summary.last_7_days.runtime_seconds = 1800
    /\ summary.today.runtime_seconds = 0
    /\ summary.last_7_days.average_per_day = [form |-> "m", hours |-> 0, minutes |-> 4]

----------------------------------------------------------------------------
(* The end-to-end scenario and format_seconds *)

\* C11: the log STARTED 06:00:00, STOPPED 06:30:00, STARTED_MANUAL 17:05:00,
\* STOPPED_MANUAL 17:45:00 reconstructs to exactly two sessions (06:00-06:30
\* AUTO 1800 s, 17:05-17:45 MANUAL 2400 s); aggregating over that day gives
\* total_seconds 4200, session_count 2, formatted "1h 10m"; and format_seconds(n)
\* is "<n div 3600>h <(n mod 3600) div 60>m" when n >= 3600, else "<n div 60>m".
C11_ScenarioAndFormat ==
    /\ (pc \in {"parsed", "done"} /\ nlines = 4) =>
          /\ result = << ThermostatSession(21600, 23400, "AUTO"),
                         ThermostatSession(61500, 63900, "MANUAL") >>
          /\ duration_seconds(result[1]) = 1800
          /\ duration_seconds(result[2]) = 2400
          /\ LET r == calculate_runtime_for_period(result, 0, DaySeconds)
             IN /\ r.total_seconds = 4200
                /\ r.session_count = 2
                /\ format_seconds(r.total_seconds)
                      = [form |-> "h m", hours |-> 1, minutes |-> 10]
    /\ (pc = "done" /\ nlines = 4) =>
          LET day == IF summary.timestamp < DaySeconds
                     THEN summary.today ELSE summary.yesterday
          IN /\ summary.status = "success"
             /\ day.runtime_seconds = 4200
             /\ day.sessions = 2
             /\ day.runtime_formatted = [form |-> "h m", hours |-> 1, minutes |-> 10]
    /\ pc = "formatted" =>
          formatted.text =
             IF formatted.seconds >= 3600
             THEN [form |-> "h m", hours |-> formatted.seconds \div 3600,
                   minutes |-> (formatted.seconds % 3600) \div 60]
             ELSE [form |-> "m", hours |-> 0, minutes |-> formatted.seconds \div 60]

C11_Witness ==
    /\ pc = "done"
    /\ nlines = 4
    /\ Len(result) = 2
    /\ summary.status = "success"
    /\ summary.today.runtime_seconds = 4200
    /\ summary.today.runtime_formatted = [form |-> "h m", hours |-> 1, minutes |-> 10]

----------------------------------------------------------------------------
(* The liveness monitor *)

(* the time since the last heartbeat, as a check at this instant measures it *)
Elapsed == time_now - last_heartbeat

(* no offline alert follows another without a recovered one between them, and
   no recovered alert comes first or follows another *)
AlertsAlternate ==
    \A i \in 1..Len(alerts) :
        alerts[i] = (IF i % 2 = 1 THEN "offline" ELSE "recovered")

\* C12: offline alerting is latched: while the time since the last heartbeat
\* stays above the timeout across N >= 1 consecutive checks, exactly one offline
\* alert is emitted, at the first such check, and the flag stays set; a second
\* offline alert is never emitted without a recovery in between.
C12_OfflineAlertLatched ==
    /\ [](AlertsAlternate /\ (alert_sent <=> (Len(alerts) % 2 = 1)))
    /\ [][ /\ (HeartbeatMonitor /\ Elapsed > HEARTBEAT_TIMEOUT) =>
                /\ alert_sent'
                /\ IF Elapsed - MonitorSleep > HEARTBEAT_TIMEOUT
                   THEN alerts' = alerts
                   ELSE alerts' = Append(alerts, "offline")
           /\ alerts' # alerts => HeartbeatMonitor ]_vars

C12_Witness ==
    /\ alerts = <<"offline">>
    /\ alert_sent
    /\ Elapsed > HEARTBEAT_TIMEOUT + 2 * MonitorSleep
    /\ next_check > time_now

\* C13: when an alert is active and a fresh heartbeat arrives before the next
\* check, that check clears the flag and emits exactly one recovered
\* notification; no recovered notification is emitted while no alert is active.
C13_RecoveredOnFreshHeartbeat ==
    [][ /\ (HeartbeatMonitor /\ alert_sent /\ hb_since_check) =>
             /\ ~alert_sent'
             /\ alerts' = Append(alerts, "recovered")
        /\ (alerts' # alerts /\ alerts'[Len(alerts')] = "recovered") =>
             /\ alert_sent
             /\ Len(alerts') = Len(alerts) + 1 ]_vars

C13_Witness ==
    /\ alerts = <<"offline", "recovered">>
    /\ ~alert_sent
    /\ ~hb_since_check
    /\ Elapsed <= MonitorSleep

\* C14: every heartbeat-bearing line received from the device sets
\* last_heartbeat to its arrival time, whether or not an alert is active, and
\* the monitor never prevents or delays that update (the line can be taken in
\* every state).
C14_HeartbeatAlwaysRecorded ==
    /\ [](\A parts \in DeviceLines : ENABLED ReadArduino(parts))
    /\ [][ \A parts \in DeviceLines :
              (ReadArduino(parts) /\ HeartbeatBearing(parts)) =>
                  last_heartbeat' = time_now ]_vars

C14_Witness ==
    /\ alert_sent
    /\ HeartbeatBearing(dev_line)
    /\ last_heartbeat = time_now
    /\ hb_since_check

(* a HEARTBEAT line without the clock and on/off fields *)
MalformedHeartbeat(parts) == StartsWithField(parts, "HEARTBEAT") /\ Len(parts) < 4

\* C15: a HEARTBEAT line that lacks the minimum fields leaves thermostat_status,
\* thermostat_mode and last_heartbeat all unchanged.
C15_MalformedHeartbeatIgnored ==
    [][ \A parts \in DeviceLines :
           (ReadArduino(parts) /\ MalformedHeartbeat(parts)) =>
               UNCHANGED <<thermostat_status, thermostat_mode, last_heartbeat>> ]_vars

\* C16: after a well-formed heartbeat with clock and on/off but no mode field
\* is processed, the reported mode is "unknown", not the mode of an earlier event.
C16_ModeDefaultsToUnknown ==
    [][ \A parts \in DeviceLines :
           (ReadArduino(parts) /\ StartsWithField(parts, "HEARTBEAT") /\ Len(parts) = 4) =>
               /\ thermostat_mode' \in {"unknown", "UNKNOWN"}
               /\ cmd_status_mode(parts) \in {"unknown", "UNKNOWN"} ]_vars

\* C17: each LIVE->STALE and each STALE->LIVE transition of the monitor hands
\* one message to the notification service: the number of notification
\* requests sent equals the number of transitions.
C17_TransitionsAreNotified ==
    Len(notif_outbox) = Len(alerts)

----------------------------------------------------------------------------
(* The protocol services *)

(* the request lines of the control service *)
ControlVocabulary ==
    { <<"OVERRIDE:", "ON">>, <<"OVERRIDE:", "OFF">>, <<"OVERRIDE:", "AUTO">>,
      <<"CLEAR_SCHED", "">>, <<"SCHED:", "0:6:0:8:0">>, <<"GET_STATUS", "">> }

\* C18: the Control service accepts only OVERRIDE:ON, OVERRIDE:OFF,
\* OVERRIDE:AUTO, CLEAR_SCHED, SCHED:<i>:<sh>:<sm>:<eh>:<em> and GET_STATUS; any
\* other request line is answered with status error and nothing is written to
\* the device.
C18_OnlyVocabularyAccepted ==
    [][ (ProcessControl /\ request \notin ControlVocabulary) =>
            /\ serial_out' = serial_out
            /\ \A i \in 1..Len(response') : response'[i].status = "error" ]_vars

\* C19: every response the Control, Notification and Query services send is a
\* structured object whose status field is success or error.
C19_EveryResponseHasStatus ==
    \A i \in 1..Len(response) :
        /\ response[i].json = "object"
        /\ response[i].status \in {"success", "error"}

\* C20: every accepted connection is eventually closed by its handler, whatever
\* the outcome.
C20_ConnectionEventuallyClosed ==
    (hpc \in {"recv", "process", "except", "close"}) ~> (hpc = "closed")

C20_Witness ==
    /\ hpc = "closed"
    /\ svc = "control"
    /\ request = <<>>
    /\ response = <<>>

\* C21: GET_STATUS answers from in-memory state only: the response has status
\* success with the current thermostat_status, thermostat_mode and
\* last_heartbeat, nothing is written to the device, and it succeeds even when
\* the device is disconnected.
C21_GetStatusFromMemory ==
    [][ (ProcessControl /\ request = <<"GET_STATUS", "">>) =>
            /\ serial_out' = serial_out
            /\ UNCHANGED <<thermostat_status, thermostat_mode, last_heartbeat>>
            /\ hpc' = "close" =>
                 response' = << [json |-> "object", status |-> "success",
                                 body |-> <<thermostat_status, thermostat_mode,
                                            last_heartbeat>>] >> ]_vars

C21_Witness ==
    /\ svc = "control"
    /\ hpc = "close"
    /\ request = <<"GET_STATUS", "">>
    /\ ~arduino_open
    /\ response = << [json |-> "object", status |-> "success",
                      body |-> <<"ON", "MANUAL_ON", 5>>] >>
    /\ serial_out = <<>>

(* the step hands one message to send_telegram_message, with this outcome *)
Forwarded(message, delivered) ==
    telegram_sent' = Append(telegram_sent, [text |-> message, delivered |-> delivered])

\* C22: the Notification service forwards the message of a {type: notification,
\* message} request exactly once and answers status success if and only if the
\* delivery succeeded; a request of another type, or a payload that is not
\* valid JSON, is answered with status error and nothing is forwarded.
C22_NotificationForwardedOnce ==
    [][ /\ (ProcessNotification /\ request[1] = "json" /\ request[2] = "notification") =>
             \E delivered \in BOOLEAN :
                 /\ Forwarded(request[3], delivered)
                 /\ hpc' = "close" =>
                      /\ Len(response') = 1
                      /\ (response'[1].status = "success") <=> delivered
                      /\ response'[1].status \in {"success", "error"}
        /\ (ProcessNotification /\ request[1] = "json" /\ request[2] # "notification") =>
             /\ telegram_sent' = telegram_sent
             /\ hpc' = "close" => response' = <<DictResponse("error", "Unknown request type")>>
        /\ (ProcessNotification /\ request[1] # "json") =>
             /\ telegram_sent' = telegram_sent
             /\ response' = response
             /\ hpc' = "except"
        /\ (Except /\ svc = "notification") =>
             /\ telegram_sent' = telegram_sent
             /\ \A i \in 1..Len(response') : response'[i].status = "error" ]_vars

C22_Witness ==
    /\ svc = "notification"
    /\ hpc = "close"
    /\ request = <<"json", "notification", "m">>
    /\ response = <<DictResponse("error", "Failed to send notification")>>
    /\ telegram_sent = << [text |-> "m", delivered |-> FALSE] >>

(* the line handle_command_connection passes to send_arduino_command *)
DeviceCommand(data) == IF data[1] = "CLEAR_SCHED" THEN <<"CLEAR_SCHED", "">> ELSE data

\* C29: an OVERRIDE, CLEAR_SCHED or SCHED request is answered with status
\* success if and only if the command line was written to an open device
\* transport; when the device is not connected or the write fails the response
\* has status error, and the in-memory status, mode and heartbeat are unchanged.
C29_SuccessIffWritten ==
    [][ (ProcessControl /\ request[1] \in {"OVERRIDE:", "CLEAR_SCHED", "SCHED:"}) =>
            /\ \/ serial_out' = serial_out
               \/ /\ arduino_open
                  /\ serial_out' = Append(serial_out, DeviceCommand(request))
            /\ hpc' = "close" =>
                 /\ Len(response') = 1
                 /\ response'[1].status \in {"success", "error"}
                 /\ (response'[1].status = "success") <=> (serial_out' # serial_out)
            /\ UNCHANGED <<thermostat_status, thermostat_mode, last_heartbeat>> ]_vars

C29_Witness ==
    /\ svc = "control"
    /\ hpc = "close"
    /\ request = <<"OVERRIDE:", "ON">>
    /\ response = <<DictResponse("error", "Failed to send to Arduino")>>
    /\ serial_out = <<>>
    /\ thermostat_status = "ON"

----------------------------------------------------------------------------
(* The daily snapshot store *)

(* the dates of a mapping *)
DatesOf(summaries) == {e.date : e \in summaries}

(* the entry holds the runtime and the session count of its day, up to the time
   it was taken *)
HoldsTodaysRuntime(e) ==
    LET r == calculate_runtime_for_period(result, TodayStart(e.timestamp), e.timestamp)
    IN /\ e.date = DateOf(e.timestamp)
       /\ e.runtime_seconds = r.total_seconds
       /\ e.sessions = r.session_count

(* the worker has served DAILY_SUMMARY and no write to the file has failed *)
DailyDone(w) ==
    /\ workers[w].pc = "done"
    /\ workers[w].req = "DAILY_SUMMARY"
    /\ ~workers[w].io_failed

\* C23: every DAILY_SUMMARY request results in a snapshot entry for today's
\* date in the store, holding today's runtime and session count, also when the
\* log holds no completed session (the entry then records zero runtime).
C23_DailySummaryAlwaysRecorded ==
    \A w \in DOMAIN workers :
        DailyDone(w) =>
            /\ workers[w].entry # <<>>
            /\ summary_file.state = "ok"
            /\ workers[w].entry[1] \in summary_file.data
            /\ HoldsTodaysRuntime(workers[w].entry[1])

\* C24: a HISTORICAL request returns every date entry written by a
\* DAILY_SUMMARY that completed before the request started, under every
\* interleaving with the requests served on other connections.
C24_HistoricalIsComplete ==
    \A w \in DOMAIN workers :
        (workers[w].pc = "done" /\ workers[w].req = "HISTORICAL") =>
            workers[w].seen \subseteq DatesOf(workers[w].reply[1])

\* C25: recording a snapshot for a date that already has an entry overwrites
\* it: the store then has exactly one entry for that date, equal to the new one
\* (nothing is added to the earlier values), the other dates are kept, and a
\* load returns the new entry.
C25_RecordOverwrites ==
    /\ \A e1, e2 \in summary_file.data : e1.date = e2.date => e1 = e2
    /\ \A w \in DOMAIN workers :
          (DailyDone(w) /\ workers[w].reply = <<TRUE>>) =>
              LET new == workers[w].entry[1]
              IN /\ {e \in load_summary_file : e.date = new.date} = {new}
                 /\ {e \in load_summary_file : e.date # new.date}
                       = {e \in workers[w].loaded : e.date # new.date}
                 /\ HoldsTodaysRuntime(new)

C25_Witness ==
    \E w \in DOMAIN workers :
        /\ DailyDone(w)
        /\ workers[w].reply = <<TRUE>>
        /\ \E old \in workers[w].loaded :
              /\ old.date = workers[w].entry[1].date
              /\ old.runtime_seconds # workers[w].entry[1].runtime_seconds
        /\ workers[w].entry[1] \in summary_file.data

\* C26: a missing or corrupt snapshot store is read as an empty mapping and
\* never fails the caller: load returns {} and a following record succeeds,
\* leaving a store that contains the new entry.
C26_BadStoreReadAsEmpty ==
    \A w \in DOMAIN workers :
        workers[w].loaded_state \in {"missing", "corrupt"} =>
            /\ workers[w].loaded = {}
            /\ (workers[w].pc = "done" /\ workers[w].req = "HISTORICAL") =>
                   workers[w].reply = <<{}>>
            /\ (DailyDone(w) /\ workers[w].entry # <<>>) =>
                   /\ workers[w].reply = <<TRUE>>
                   /\ summary_file = [state |-> "ok", data |-> {workers[w].entry[1]}]

C26_Witness ==
    \E w \in DOMAIN workers :
        /\ DailyDone(w)
        /\ workers[w].loaded_state = "corrupt"
        /\ workers[w].reply = <<TRUE>>
        /\ summary_file = [state |-> "ok", data |-> {workers[w].entry[1]}]

\* C28: within the Query service the snapshot store has a single writer at a
\* time: no two DAILY_SUMMARY handlers are simultaneously between loading the
\* mapping and writing it back.
C28_SingleWriter ==
    Cardinality({w \in DOMAIN workers : workers[w].pc \in {"save", "dump"}}) <= 1


(* C27: whenever the reader has caught a failure of the link, at
   serial.Serial or while reading from the open connection, it later calls
   serial.Serial again, unless the connection it holds has started to answer
   again in the meantime. *)
C27_ReaderReconnects ==
    (reader.pc \in {"sleep_retry", "sleep_error"})
        ~> (reader.pc = "connect" \/ (arduino_open /\ ~reader.dead))

BadScheduleFile == schedule_file.state \in {"missing", "corrupt"}

(* C30: a load_schedule that finds the schedule file missing or corrupt
   returns with the default schedule set in memory; when the file can be
   written it then holds that default, and a load_schedule of the file as it
   is left gives the same schedule again. *)
C30_DefaultOnBadScheduleFile ==
    [][((Startup \/ LoadSchedule) /\ BadScheduleFile)
          => /\ current_schedule' = DefaultSchedule
             /\ schedule_file.writable = "yes"
                    => schedule_file' = [schedule_file EXCEPT !.state = "ok",
                                                              !.data = DefaultSchedule]
             /\ load_schedule(schedule_file').current_schedule = current_schedule']_vars

C30_Witness ==
    /\ current_schedule = DefaultSchedule
    /\ schedule_file.state = "ok"
    /\ schedule_file.data = DefaultSchedule

\* C31: when the time since the last heartbeat exceeds the timeout and no
\* heartbeat-bearing line arrives, the alert flag becomes set, and it is set by
\* the first check that measures an elapsed time above the timeout; this
\* includes the case that no heartbeat was ever received.
C31_SilenceEventuallyAlerts ==
    /\ (Elapsed > HEARTBEAT_TIMEOUT) ~> (alert_sent \/ Elapsed <= HEARTBEAT_TIMEOUT)
    /\ [][(HeartbeatMonitor /\ Elapsed > HEARTBEAT_TIMEOUT) => alert_sent']_vars

C31_Witness ==
    /\ alert_sent
    /\ last_heartbeat = 0
    /\ dev_line = <<>>
    /\ time_now = HEARTBEAT_TIMEOUT + MonitorSleep

C33_OneWriterPerField ==
    [][ /\ (alert_sent' # alert_sent) => SharedMonitor
        /\ (Globals' # Globals) => SharedReader
        /\ SharedMonitor => (Globals' = Globals)
        /\ SharedHandler => (Globals' = Globals /\ alert_sent' = alert_sent) ]_vars

C33_Witness ==
    /\ hpc = "closed"
    /\ request = <<"OVERRIDE:", "ON">>
    /\ response = <<DictResponse("success", "Command sent")>>
    /\ serial_out = <<request>>
    /\ alert_sent
    /\ Globals = <<"UNKNOWN", "AUTO", 0>>

\* C38: the status, mode and last_heartbeat of a GET_STATUS response are values
\* the three globals held together at one instant between the arrival of the
\* request and the response, whatever the reader does meanwhile.
C38_StatusIsSnapshot ==
    (hpc = "send") => (get_status.reply \in get_status.held)

\* C34: a DAILY_SUMMARY served on its own leaves the entries of the other
\* dates as they were: every entry loaded under another date is in the file
\* afterwards with the same values, the file holds nothing but these and
\* today's entry, and every date recorded so far is still there.
C34_OtherDatesKept ==
    \A w \in DOMAIN workers :
        (DailyDone(w) /\ workers[w].reply = <<TRUE>>) =>
            LET new == workers[w].entry[1]
            IN /\ \A e \in workers[w].loaded :
                      e.date # new.date => e \in summary_file.data
               /\ \A e \in summary_file.data : e = new \/ e \in workers[w].loaded
               /\ recorded \subseteq DatesOf(summary_file.data)

C34_Witness ==
    \E w \in DOMAIN workers :
        /\ DailyDone(w)
        /\ workers[w].reply = <<TRUE>>
        /\ \E old \in workers[w].loaded :
              /\ old.date # workers[w].entry[1].date
              /\ old \in summary_file.data
        /\ Cardinality(recorded) = 2

\* C35: the periods of Today, Yesterday and DayBefore partition the time from
\* the start of DayBefore to now: when every session of the log lies in that
\* span, the three runtimes add up to the sum of the sessions' durations, so
\* that every second is counted in exactly one day, across midnight too.
C35_DaysPartitionTime ==
    (pc = "done" /\ summary.status = "success") =>
        LET now == summary.timestamp
            day_before_start == TodayStart(now) - 2 * DaySeconds
        IN (\A k \in 1..Len(result) :
               /\ result[k].start_time >= day_before_start
               /\ result[k].end_time <= now)
           => summary.today.runtime_seconds + summary.yesterday.runtime_seconds
                 + summary.day_before.runtime_seconds
              = SumClampOverlap(result, day_before_start, now)

\* C36: parse_logs holds at most one open session, and every line it takes as
\* a STARTED or STOPPED event emits at most one session, the open one, closed
\* at the line's timestamp; a STARTED line then opens the one session that
\* starts at its timestamp, a STOPPED line leaves none open, and every other
\* line changes nothing.  So the emitted sessions are, in order, those of the
\* STARTED lines that a later event follows, each ending at the next event,
\* and none is emitted twice.
C36_OneSessionPerStartedLine ==
    /\ [](Len(current_session) <= 1 /\ (current_session # <<>> => IsOpen(current_session)))
    /\ [][(pc = "body") =>
            LET event == StartedEvent(line) \/ StoppedEvent(line)
                emitted == IF event /\ IsOpen(current_session)
                           THEN <<[current_session[1] EXCEPT !.end_time = line.ts]>>
                           ELSE <<>>
            IN /\ sessions' = sessions \o emitted
               /\ StartedEvent(line) =>
                     /\ Len(current_session') = 1
                     /\ current_session'[1].start_time = line.ts
                     /\ current_session'[1].end_time = NoneTime
               /\ StoppedEvent(line) => current_session' = <<>>
               /\ ~event => current_session' = current_session ]_vars

C36_Witness ==
    /\ pc = "parsed"
    /\ Len(result) = 2
    /\ result[1].end_time = result[2].start_time
    /\ result[1].start_time < result[1].end_time
    /\ result[2].start_time < result[2].end_time
    /\ current_session = <<>>

\* C37: a schedule sync sends CLEAR_SCHED first; when that is answered with
\* success it sends one SCHED command per entry of the schedule, numbered from
\* 0 in list order, and reports success; when CLEAR_SCHED fails it sends no
\* SCHED command and reports failure.  No SCHED command goes out before a
\* CLEAR_SCHED that succeeded.
C37_SyncClearsFirst ==
    [][(sched_sync' # sched_sync) =>
          LET sent == sched_sync'.sent
              n == Len(current_schedule')
          IN /\ Len(sent) >= 1
             /\ sent[1].command = <<"CLEAR_SCHED">>
             /\ \A k \in 1..Len(sent) :
                   sent[k].command[1] = "SCHED:" => (k > 1 /\ sent[1].ack)
             /\ IF sent[1].ack
                THEN /\ sched_sync'.ok
                     /\ Len(sent) = n + 1
                     /\ \A i \in 1..n :
                           sent[i + 1].command =
                               <<"SCHED:", i - 1,
                                 current_schedule'[i].startHour,
                                 current_schedule'[i].startMinute,
                                 current_schedule'[i].endHour,
                                 current_schedule'[i].endMinute>>
                ELSE /\ ~sched_sync'.ok
                     /\ Len(sent) = 1 ]_vars

C37_Witness ==
    /\ sched_sync # <<>>
    /\ sched_sync.ok
    /\ Len(current_schedule) = 3
    /\ Len(sched_sync.sent) = 4
    /\ sched_sync.sent[4].command = <<"SCHED:", 2, 22, 30, 23, 30>>
    /\ ~sched_sync.sent[3].ack

====
